---- MODULE Spec2Model ----
(***************************************************************************)
(* State-machine model of the SSL socket object of Modules/_ssl.c          *)
(* (PySSLSocket): do_handshake, read, write and shutdown, together with    *)
(* the readiness wait and the error mapper they call.  The OpenSSL engine, *)
(* the signal state and the other owners of the socket are the             *)
(* environment: every engine result, poll result and interrupt is drawn    *)
(* nondeterministically.                                                   *)
(***************************************************************************)
EXTENDS Integers, FiniteSets, Sequences, TLC

VARIABLES
    alive,              \* referent of the weak reference self->Socket still exists
    extRefs,            \* some owner other than the running call holds a strong ref
    held,               \* the running call holds its Py_INCREF(sock) reference
    sock_timeout,       \* sock->sock_timeout (<0 blocking, 0 nonblocking, >0 timeout)
    sock_closed,        \* sock->sock_fd < 0
    peer_cert,          \* self->peer_cert (0 is NULL)
    shutdown_seen_zero, \* self->shutdown_seen_zero: "uninit" until first assigned, then "set"
    readAheadDisabled,  \* SSL_set_read_ahead(self->ssl, 0) has been called
    errQueue,           \* the engine's pending error queue is non-empty
    sslShutdown,        \* SSL_get_shutdown(): subset of {"SENT", "RECEIVED"}
    op,                 \* operation of the current / last call
    pc,                 \* "idle", "loop" (inside the retry loop), "done" (at its return)
    ret,                \* last numeric engine result (ret / len / count / err)
    err,                \* last SSL_get_error class
    sockstate,          \* last result of check_socket_and_wait_for_timeout
    zeros,              \* local variable zeros of PySSL_SSLshutdown
    reqlen,             \* byte count handed to the engine read / write step
    buflen,             \* buf.len of the caller's buffer (-1: no buffer passed)
    result,             \* what the call returned to its caller
    steps,              \* engine steps performed by the call (saturating)
    prevWantStop,       \* an earlier handshake stopped on the nonblocking short-circuit
    derefNone,          \* a dead socket has been dereferenced
    nbioSet,            \* the call has set the blocking mode of the engine's BIOs
    goneAtEntry,        \* the weak reference was dead when the call came to
                        \* its test of it
    certFetched,        \* the call replaced peer_cert by SSL_get_peer_certificate()
    intr,               \* a raising signal was pending when the last engine step ended
    mapperArgs,         \* what PySSL_SetError saw when the call ran it
    readArgs,           \* the arguments of the running read call, where they
                        \* are recorded (tracked): a buffer was passed (bp), the
                        \* len argument (l), buf.len (bl)
    life,               \* what the calls on the SSL object have done so far:
                        \* "created" (no handshake completed), "established" (one
                        \* has), "interrupted" (a call was aborted by a signal);
                        \* "untracked" where the history is not recorded
    gil,                \* thread holding the interpreter lock (0: nobody)
    th,                 \* per thread: where it is in a context operation, its locals
    ctxCb,              \* ctx->default_passwd_callback and its userdata (0: the original
                        \* pair, i: _password_callback with the pw_info of thread i)
    ctxVerify,          \* SSL_CTX_get_verify_mode(): set of SSL_VERIFY_* flags
    lastSet,            \* the verify_mode value last accepted by the setter
    haveClear,          \* the build defines HAVE_SSL_CTX_CLEAR_OPTIONS
    ctxOptions,         \* SSL_CTX_get_options(): the option bits of the Context
    optLog,             \* the set_options call, if that was the last call on the
                        \* Context: its argument, the options it found, the masks
                        \* it handed to the engine, its result
    store,              \* the locations loaded into the Context's trust store
    lvlLog,             \* the load_verify_locations call, if that was the last
                        \* call on the Context
    call                \* the function applied last (fn; "none" before the
                        \* first), its arguments (in) and what it returned (out)

sockSide == <<alive, extRefs, held, sock_timeout, sock_closed, peer_cert,
          shutdown_seen_zero, readAheadDisabled, errQueue, sslShutdown, op, pc,
          ret, err, sockstate,
          zeros, reqlen, buflen, result, steps, prevWantStop, derefNone, nbioSet, goneAtEntry,
          certFetched, intr, mapperArgs, readArgs, life>>

ctxSide == <<gil, th, ctxCb, ctxVerify, lastSet>>

cfgSide == <<haveClear, ctxOptions, optLog, store, lvlLog>>

pureSide == <<call>>

restSide == <<cfgSide, pureSide>>

vars == <<sockSide, ctxSide, restSide>>

(***************************************************************************)
(* Bounds of the model.                                                    *)
(***************************************************************************)
MaxSteps == 2
\* width of a C int, scaled down to fit the model checker's integers
IntBits == 8
\* number of option bits of a Context
OptBits == 3
\* longest X509 name (in entries) and most extensions of a certificate
MaxName == 3
MaxExt == 2

(***************************************************************************)
(* Program constants.                                                      *)
(***************************************************************************)
PY_SSL_ERROR_NONE == 0
PY_SSL_ERROR_SSL == 1
PY_SSL_ERROR_WANT_READ == 2
PY_SSL_ERROR_WANT_WRITE == 3
PY_SSL_ERROR_WANT_X509_LOOKUP == 4
PY_SSL_ERROR_SYSCALL == 5
PY_SSL_ERROR_ZERO_RETURN == 6
PY_SSL_ERROR_WANT_CONNECT == 7
PY_SSL_ERROR_EOF == 8
PY_SSL_ERROR_NO_SOCKET == 9
PY_SSL_ERROR_INVALID_ERROR_CODE == 10
PY_SSL_CLIENT == 0
PY_SSL_SERVER == 1
PY_SSL_CERT_NONE == 0
PY_SSL_CERT_OPTIONAL == 1
PY_SSL_CERT_REQUIRED == 2
INT_MAX == 2 ^ (IntBits - 1) - 1

\* (int) x: conversion of a Py_ssize_t to a C int
ToInt(x) == ((x + 2 ^ (IntBits - 1)) % 2 ^ IntBits) - 2 ^ (IntBits - 1)

Sat(n) == IF n < MaxSteps THEN n + 1 ELSE MaxSteps

(***************************************************************************)
(* Option bits of a Context: C's &, ~ and | on the OptBits low bits of a   *)
(* long.                                                                   *)
(***************************************************************************)
Masks == 0 .. (2 ^ OptBits - 1)

Bit(x, k) == (x \div (2 ^ k)) % 2

RECURSIVE AndUpTo(_, _, _)
AndUpTo(a, b, k) ==
    IF k < 0 THEN 0
    ELSE Bit(a, k) * Bit(b, k) * (2 ^ k) + AndUpTo(a, b, k - 1)

BitAnd(a, b) == AndUpTo(a, b, OptBits - 1)
BitNot(a) == (2 ^ OptBits - 1) - a
BitOr(a, b) == a + b - BitAnd(a, b)

\* clear = opts & ~new_opts
ClearMask_all(opts, new_opts) == opts

ClearMask(opts, new_opts) == BitAnd(opts, BitNot(new_opts))

\* set = ~opts & new_opts
SetMask(opts, new_opts) == BitAnd(BitNot(opts), new_opts)

NoOptCall ==
    [ran |-> FALSE, req |-> 0, before |-> 0, cleared |-> 0, set |-> 0,
     ret |-> 0, exc |-> ""]

OptCall(req, before, cleared, set, r, x) ==
    [ran |-> TRUE, req |-> req, before |-> before, cleared |-> cleared,
     set |-> set, ret |-> r, exc |-> x]

\* the argument of the setter: a Python int that fits a long, or not
SetOptionsArgs ==
    {[isLong |-> FALSE, v |-> 0]} \cup {[isLong |-> TRUE, v |-> m] : m \in Masks}

(***************************************************************************)
(* load_verify_locations: its arguments and its log.                       *)
(***************************************************************************)
PathArgs == {"omitted", "None", "path", "notpath"}

\* cafile == NULL after "if (cafile == Py_None) cafile = NULL"
PathIsNull_omittedOnly(a) == a = "omitted"

PathIsNull(a) == a \in {"omitted", "None"}

NoLoadCall ==
    [ran |-> FALSE, cafile |-> "omitted", capath |-> "omitted",
     changed |-> FALSE, engine |-> FALSE, ret |-> "none", exc |-> ""]

\* changed: the call added a location to the trust store
LoadCall(cafile, capath, changed, engine, r, x) ==
    [ran |-> TRUE, cafile |-> cafile, capath |-> capath, changed |-> changed,
     engine |-> engine, ret |-> r, exc |-> x]

\* what SSL_CTX_load_verify_locations reports
EngineLoads == {"ok", "errno", "sslerror"}

(***************************************************************************)
(* The server-name callback trampoline.                                    *)
(***************************************************************************)
\* what the Python callable did: raised, or returned None, an int (n: its
\* value; inLong: it fits a C long) or an object of another type
AlertCodes == {0, 40, 2 ^ IntBits + 40}

CallbackResults ==
    {[kind |-> k, n |-> 0, inLong |-> TRUE] : k \in {"raise", "None", "other"}}
    \cup {[kind |-> "int", n |-> v, inLong |-> TRUE] : v \in AlertCodes}
    \cup {[kind |-> "int", n |-> 0, inLong |-> FALSE]}

SniInputs ==
    [cbSet : BOOLEAN, sockAlive : BOOLEAN, name : {"NULL", "idna", "notidna"},
     result : CallbackResults]

SniOK == [ret |-> "SSL_TLSEXT_ERR_OK", al |-> "unset", code |-> 0]
SniFatal(a, c) == [ret |-> "SSL_TLSEXT_ERR_ALERT_FATAL", al |-> a, code |-> c]

\* from the result of the callable to the return value and *al
CallbackReturn_lenient(res) ==
    IF res.kind = "raise" THEN SniFatal("SSL_AD_HANDSHAKE_FAILURE", 0)
    ELSE IF res.kind = "int" /\ res.inLong
    THEN SniFatal("code", ToInt(res.n))
    ELSE SniOK

CallbackReturn(res) ==
    IF res.kind = "raise" THEN SniFatal("SSL_AD_HANDSHAKE_FAILURE", 0)
    ELSE IF res.kind # "None"
         THEN (IF res.kind = "int" /\ res.inLong
               THEN SniFatal("code", ToInt(res.n))
               ELSE SniFatal("SSL_AD_INTERNAL_ERROR", 0))
    ELSE SniOK

\* the callable is called when one is set, the socket object is alive and
\* the server name, if any, decodes
SniCalls(in) == in.cbSet /\ in.sockAlive /\ in.name # "notidna"

servername_callback(in) ==
    IF ~in.cbSet THEN SniOK
    ELSE IF ~in.sockAlive \/ in.name = "notidna"
    THEN SniFatal("SSL_AD_INTERNAL_ERROR", 0)
    ELSE CallbackReturn(in.result)

(***************************************************************************)
(* Certificate decoding: distinguished names and alternative names.        *)
(***************************************************************************)
RECURSIVE SeqsUpTo(_, _)
SeqsUpTo(S, n) ==
    IF n = 0 THEN {<<>>}
    ELSE LET shorter == SeqsUpTo(S, n - 1)
         IN  shorter \cup {Append(q, x) : q \in {y \in shorter : Len(y) = n - 1},
                                          x \in S}

\* an X509_NAME_ENTRY: the RDN set it belongs to and its attribute
NameEntries == [set : {0, 1}, attr : {"CN", "O"}]

Names == SeqsUpTo(NameEntries, MaxName)

\* "we've gotten to a new RDN": rdn_level >= 0 && rdn_level != entry->set
NewRDN_positive(rdn_level, set) == rdn_level > 0 /\ rdn_level # set

NewRDN(rdn_level, set) == rdn_level >= 0 /\ rdn_level # set

\* the loop of _create_tuple_for_X509_NAME from index_counter = i on, and
\* the flush of the dangling RDN after it
RECURSIVE NameLoop(_, _, _, _, _)
NameLoop(xname, i, dn, rdn, rdn_level) ==
    IF i > Len(xname)
    THEN (IF Len(rdn) > 0 THEN Append(dn, rdn) ELSE dn)
    ELSE LET entry == xname[i]
             split == NewRDN(rdn_level, entry.set)
         IN  NameLoop(xname, i + 1,
                      IF split THEN Append(dn, rdn) ELSE dn,
                      Append(IF split THEN <<>> ELSE rdn, entry.attr),
                      entry.set)

create_tuple_for_X509_NAME(xname) == NameLoop(xname, 1, <<>>, <<>>, -1)

\* a general name as GENERAL_NAME_print renders it; "noColon": a rendering
\* in which strchr(buf, ':') finds nothing
GeneralNames == {"DNS:a", "DNS:b", "noColon"}

NameLists == {<<>>, <<"DNS:a">>, <<"DNS:a", "DNS:b">>, <<"DNS:b", "DNS:a">>,
              <<"DNS:a", "noColon">>}

\* an X509_EXTENSION: its NID and, for subjectAltName, the names it holds
Extensions ==
    {[nid |-> "basicConstraints", names |-> <<>>]}
    \cup {[nid |-> "subjectAltName", names |-> l] : l \in NameLists}

Certificates == SeqsUpTo(Extensions, MaxExt)

\* X509_get_ext_by_NID(certificate, nid, lastpos): the first position after
\* lastpos holding an extension with that NID, -1 if there is none
\* (positions count from 0 in the code and from 1 here; lastpos -1 is 0)
X509_get_ext_by_NID_firstonly(certificate, nid, lastpos) ==
    IF lastpos > 0 THEN -1
    ELSE LET found == {k \in 1 .. Len(certificate) : certificate[k].nid = nid}
         IN  IF found = {} THEN -1
             ELSE CHOOSE k \in found : \A j \in found : k <= j

X509_get_ext_by_NID(certificate, nid, lastpos) ==
    LET found == {k \in (lastpos + 1) .. Len(certificate) :
                      certificate[k].nid = nid}
    IN  IF found = {} THEN -1
        ELSE CHOOSE k \in found : \A j \in found : k <= j

\* the inner loop over the names of one occurrence, from name j on
RECURSIVE AltNamesOfExt(_, _, _)
AltNamesOfExt(names, j, acc) ==
    IF acc.failed \/ j > Len(names) THEN acc
    ELSE IF names[j] = "noColon"
    THEN [acc EXCEPT !.failed = TRUE]
    ELSE AltNamesOfExt(names, j + 1,
                       [acc EXCEPT !.list = Append(@, names[j])])

\* the outer loop over the occurrences, from the one after position i on;
\* acc.isNone: peer_alt_names is still Py_None
RECURSIVE AltNamesLoop(_, _, _)
AltNamesLoop(certificate, i, acc) ==
    LET k == X509_get_ext_by_NID(certificate, "subjectAltName", i)
    IN  IF acc.failed \/ k < 0 THEN acc
        ELSE AltNamesLoop(certificate, k,
                          AltNamesOfExt(certificate[k].names, 1,
                                        [acc EXCEPT !.isNone = FALSE]))

get_peer_alt_names(certificate) ==
    LET acc == AltNamesLoop(certificate, 0,
                            [isNone |-> TRUE, list |-> <<>>, failed |-> FALSE])
    IN  IF acc.failed THEN [kind |-> "NULL", list |-> <<>>]
        ELSE IF acc.isNone THEN [kind |-> "None", list |-> <<>>]
        ELSE [kind |-> "tuple", list |-> acc.list]

(***************************************************************************)
(* peer_certificate and the tls-unique channel binding.                    *)
(***************************************************************************)
\* self->peer_cert: 0 is NULL
PeerCerts == {0, 1, 2}

\* the verify masks a Context can have
VerifyMasks == {{}, {"PEER"}, {"PEER", "FAIL_IF_NO_PEER_CERT"}}

PySSL_peercert_verifyfirst(cert, binary_mode, verification) ==
    IF cert = 0 THEN [kind |-> "None", cert |-> 0]
    ELSE IF "PEER" \notin verification THEN [kind |-> "empty_dict", cert |-> 0]
    ELSE IF binary_mode THEN [kind |-> "der", cert |-> cert]
    ELSE [kind |-> "decoded", cert |-> cert]

PySSL_peercert(cert, binary_mode, verification) ==
    IF cert = 0 THEN [kind |-> "None", cert |-> 0]
    ELSE IF binary_mode THEN [kind |-> "der", cert |-> cert]
    ELSE IF "PEER" \notin verification THEN [kind |-> "empty_dict", cert |-> 0]
    ELSE [kind |-> "decoded", cert |-> cert]

\* C's ! and ^ on the ints 0 and 1
LogicalNot(x) == IF x = 0 THEN 1 ELSE 0
Xor(a, b) == (a + b) % 2

\* SSL_session_reused(self->ssl) ^ !self->socket_type
UsesOwnFinished_noNot(reused, socket_type) == Xor(reused, socket_type) # 0

UsesOwnFinished(reused, socket_type) == Xor(reused, LogicalNot(socket_type)) # 0

\* Finished messages, as SSL_get_finished / SSL_get_peer_finished copy them
Finished == {<<>>, <<1>>, <<2>>, <<1, 2>>}

\* own, peer: the Finished message this endpoint sent and the one it received
PySSL_tls_unique_cb(reused, socket_type, own, peer) ==
    LET mine == UsesOwnFinished(reused, socket_type)
        buf == IF mine THEN own ELSE peer
    IN  [kind |-> IF Len(buf) = 0 THEN "None" ELSE "bytes",
         data |-> buf,
         from |-> IF mine THEN "own" ELSE "peer"]

(***************************************************************************)
(* Values returned to the caller.                                          *)
(***************************************************************************)
NoResult == [kind |-> "none", exc |-> "", code |-> -1, msg |-> "", value |-> 0]
Ok(v) == [kind |-> "ok", exc |-> "", code |-> -1, msg |-> "", value |-> v]
Raise(x, c, m) == [kind |-> "error", exc |-> x, code |-> c, msg |-> m, value |-> 0]

(***************************************************************************)
(* The environment: socket timeout modes, engine results, poll results.    *)
(***************************************************************************)
Timeouts == {-1, 0, 1}
\* what a wait meets: the multiplexer of the build ("poll", or "select" with
\* a selectable or a too large descriptor) and the result of poll()/select()
MuxKinds == {"poll", "select", "select_too_large"}
PollRc == {-1, 0, 1}
WaitEnv == [mux : MuxKinds, rc : PollRc]
ErrClasses == {"SSL", "WANT_READ", "WANT_WRITE", "WANT_X509_LOOKUP", "SYSCALL",
               "ZERO_RETURN", "WANT_CONNECT", "WANT_ACCEPT"}

\* SSL_get_error: SSL_ERROR_NONE exactly for a positive result; the WANT_*
\* classes only for a negative one; ZERO_RETURN only for 0; SSL exactly when
\* the error queue holds an entry; SYSCALL with or without one.
EngineFailures ==
    {[ret |-> r, err |-> "SSL", queued |-> TRUE] : r \in {-1, 0}}
    \cup {[ret |-> r, err |-> "SYSCALL", queued |-> q] :
              r \in {-1, 0}, q \in BOOLEAN}
    \cup {[ret |-> 0, err |-> "ZERO_RETURN", queued |-> FALSE]}
    \cup {[ret |-> -1, err |-> e, queued |-> FALSE] :
              e \in ErrClasses \ {"SSL", "SYSCALL", "ZERO_RETURN"}}

EngineResults(pos) ==
    EngineFailures \cup
    {[ret |-> r, err |-> "NONE", queued |-> FALSE] : r \in pos}

\* SSL_ERROR_ZERO_RETURN is reported once the peer's close-notify was received
ShutdownAfter(s, r) ==
    IF r.err = "ZERO_RETURN" THEN s \cup {"RECEIVED"} ELSE s

(***************************************************************************)
(* Socket Adapter.                                                         *)
(***************************************************************************)
\* check_socket_and_wait_for_timeout; rc is the result of poll() / select()
check_socket_and_wait_for_timeout_closedfirst(t, closed, m, rc) ==
    IF closed THEN "SOCKET_HAS_BEEN_CLOSED"
    ELSE IF t < 0 THEN "SOCKET_IS_BLOCKING"
    ELSE IF t = 0 THEN "SOCKET_IS_NONBLOCKING"
    ELSE IF m = "select_too_large" THEN "SOCKET_TOO_LARGE_FOR_SELECT"
    ELSE IF rc = 0 THEN "SOCKET_HAS_TIMED_OUT" ELSE "SOCKET_OPERATION_OK"

check_socket_and_wait_for_timeout(t, closed, m, rc) ==
    IF t < 0 THEN "SOCKET_IS_BLOCKING"
    ELSE IF t = 0 THEN "SOCKET_IS_NONBLOCKING"
    ELSE IF closed THEN "SOCKET_HAS_BEEN_CLOSED"
    ELSE IF m = "poll"
         THEN (IF rc = 0 THEN "SOCKET_HAS_TIMED_OUT" ELSE "SOCKET_OPERATION_OK")
    ELSE IF m = "select_too_large" THEN "SOCKET_TOO_LARGE_FOR_SELECT"
    ELSE IF rc = 0 THEN "SOCKET_HAS_TIMED_OUT" ELSE "SOCKET_OPERATION_OK"

\* the system call check_socket_and_wait_for_timeout blocks in, and the
\* events it asks for ("none": it returns without waiting)
WaitedOn(t, closed, m, writing) ==
    IF t <= 0 \/ closed THEN "none"
    ELSE IF m = "poll" THEN (IF writing THEN "poll_POLLOUT" ELSE "poll_POLLIN")
    ELSE IF m = "select_too_large" THEN "none"
    ELSE IF writing THEN "select_writefds" ELSE "select_readfds"

(***************************************************************************)
(* Error mapper.                                                           *)
(***************************************************************************)
\* PySSL_SetError(obj, ret, ...): en is SSL_get_error(), e is
\* ERR_peek_last_error() != 0, sNone is PyWeakref_GetObject(obj->Socket) ==
\* Py_None.  ErrorClass is the value given to p, ErrorType the one given to
\* type.
\* variant: p keeps its initial value PY_SSL_ERROR_NONE
ErrorClass_unset(r, en, e, sNone) == PY_SSL_ERROR_NONE

ErrorClass(r, en, e, sNone) ==
    CASE en = "ZERO_RETURN" -> PY_SSL_ERROR_ZERO_RETURN
      [] en = "WANT_READ" -> PY_SSL_ERROR_WANT_READ
      [] en = "WANT_WRITE" -> PY_SSL_ERROR_WANT_WRITE
      [] en = "WANT_X509_LOOKUP" -> PY_SSL_ERROR_WANT_X509_LOOKUP
      [] en = "WANT_CONNECT" -> PY_SSL_ERROR_WANT_CONNECT
      [] en = "SYSCALL" ->
            IF ~e /\ (r = 0 \/ sNone) THEN PY_SSL_ERROR_EOF
            ELSE PY_SSL_ERROR_SYSCALL
      [] en = "SSL" -> PY_SSL_ERROR_SSL
      [] OTHER -> PY_SSL_ERROR_INVALID_ERROR_CODE

ErrorType(r, en, e, sNone) ==
    CASE en = "ZERO_RETURN" -> "SSLZeroReturnError"
      [] en = "WANT_READ" -> "SSLWantReadError"
      [] en = "WANT_WRITE" -> "SSLWantWriteError"
      [] en = "SYSCALL" /\ ~e ->
            IF r = 0 \/ sNone THEN "SSLEOFError" ELSE "SSLSyscallError"
      [] OTHER -> "SSLError"

\* variant: the error hook is called without the test for a dead reference
PySSL_SetError_nocheck(r, en, e, sNone) ==
    IF en = "SYSCALL" /\ ~e /\ r = -1
    THEN Raise("socket.error", -1, "errorhandler")
    ELSE Raise(ErrorType(r, en, e, sNone), ErrorClass(r, en, e, sNone), "engine")

PySSL_SetError(r, en, e, sNone) ==
    IF en = "SYSCALL" /\ ~e /\ ~(r = 0 \/ sNone) /\ r = -1
    THEN \* s->errorhandler(): the socket's own error, nothing else
         Raise("socket.error", -1, "errorhandler")
    ELSE Raise(ErrorType(r, en, e, sNone), ErrorClass(r, en, e, sNone), "engine")

\* _setSSLError(errstr, errcode, ...): the errcode argument is overwritten
\* on both branches; peek is ERR_peek_last_error()
setSSLError(hasErrstr, errcode, peek, m) ==
    LET ec == IF ~hasErrstr THEN peek ELSE 0
    IN  Raise("SSLError", ec, m)

\* the arguments PySSL_SetError worked on: e is ERR_peek_last_error() != 0,
\* sNone is PyWeakref_GetObject(obj->Socket) == Py_None
NotMapped == [ran |-> FALSE, e |-> FALSE, sNone |-> FALSE]
Mapped(e, sNone) == [ran |-> TRUE, e |-> e, sNone |-> sNone]

(***************************************************************************)
(* Decisions of the four operations.                                       *)
(***************************************************************************)
\* variant: the liveness test of the weak reference is missing
SockIsNone_never(a) == FALSE

\* ((PyObject*)sock) == Py_None
SockIsNone(a) == ~a

\* variant: while (err == SSL_ERROR_WANT_READ)
LoopAgain_readOnly(en) == en = "WANT_READ"

\* variant: the loops also go round again on the other two WANT_* classes
LoopAgain_allWants(en) ==
    en \in {"WANT_READ", "WANT_WRITE", "WANT_CONNECT", "WANT_X509_LOOKUP"}

\* while (err == SSL_ERROR_WANT_READ || err == SSL_ERROR_WANT_WRITE)
LoopAgain(en) == en \in {"WANT_READ", "WANT_WRITE"}

\* variant: the loops lack the nonblocking short-circuit
NonblockingBreak_never(ss) == FALSE

\* else if (sockstate == SOCKET_IS_NONBLOCKING) break;
NonblockingBreak(ss) == ss = "SOCKET_IS_NONBLOCKING"

\* variant: if (ret < 0), a result of 0 counts as success
HandshakeFailed_negative(r) == r < 0

\* variant: if (ret <= 1), a result of 1 counts as failure
HandshakeFailed_atmost1(r) == r <= 1

\* if (ret < 1) return PySSL_SetError(...)
HandshakeFailed(r) == r < 1

\* variant: if (buf.len > INT_MAX + 1), off by one
BufTooLong_offbyone(l) == l > INT_MAX + 1

\* if (buf.len > INT_MAX)
BufTooLong(l) == l > INT_MAX

\* variant: the shutdown state is tested with a mask, & SSL_RECEIVED_SHUTDOWN
GracefulEOF_mask(en, shut) == en = "ZERO_RETURN" /\ "RECEIVED" \in shut

\* (err == SSL_ERROR_ZERO_RETURN) &&
\* (SSL_get_shutdown(self->ssl) == SSL_RECEIVED_SHUTDOWN)
GracefulEOF(en, shut) == en = "ZERO_RETURN" /\ shut = {"RECEIVED"}

\* variant: if (err <= 0), a last result of 0 is an error
ShutdownFailed_nonpositive(r) == r <= 0

\* if (err < 0) return PySSL_SetError(...); else return the socket
ShutdownFailed(r) == r < 0

\* variant: if (++zeros > 2) break;
ShutdownZeroCap_three(z) == z > 2

\* if (++zeros > 1) break;
ShutdownZeroCap(z) == z > 1

\* outcome of one pass through a loop body: go round again, or return res;
\* clear: ERR_clear_error() was called; hand: the socket reference goes to
\* the caller; cert: peer_cert was replaced
Continue ==
    [next |-> "loop", res |-> NoResult, clear |-> FALSE, hand |-> FALSE,
     cert |-> FALSE]
Leave(res, clear) ==
    [next |-> "done", res |-> res, clear |-> clear, hand |-> FALSE, cert |-> FALSE]
\* variant: shutdown releases its reference before it returns the socket
HandOver_released(res) ==
    [next |-> "done", res |-> res, clear |-> FALSE, hand |-> FALSE, cert |-> FALSE]

HandOver(res) ==
    [next |-> "done", res |-> res, clear |-> FALSE, hand |-> TRUE, cert |-> FALSE]
NewCert(res) ==
    [next |-> "done", res |-> res, clear |-> FALSE, hand |-> FALSE, cert |-> TRUE]

\* the wait a loop body performs after an engine step of class en
WaitFor(en, t, closed, w) ==
    IF en \in {"WANT_READ", "WANT_WRITE"}
    THEN check_socket_and_wait_for_timeout(t, closed, w.mux, w.rc)
    ELSE "SOCKET_OPERATION_OK"

\* what the wait can report, over everything it can meet
WaitOutcomes(en, t, closed) == {WaitFor(en, t, closed, w) : w \in WaitEnv}
PreWaitOutcomes(t, closed) ==
    {check_socket_and_wait_for_timeout(t, closed, w.mux, w.rc) : w \in WaitEnv}

\* PySSL_SSLdo_handshake, from PyErr_CheckSignals() to the return
HandshakeOutcome(r, e, sig, ss, sNone) ==
    IF sig THEN Leave(Raise("Interrupt", -1, "interrupt"), FALSE)
    ELSE IF ss = "SOCKET_HAS_TIMED_OUT"
         THEN Leave(Raise("socket.timeout", -1, "timeout"), FALSE)
    ELSE IF ss = "SOCKET_HAS_BEEN_CLOSED"
         THEN Leave(Raise("SSLError", -1, "closed"), FALSE)
    ELSE IF ss = "SOCKET_TOO_LARGE_FOR_SELECT"
         THEN Leave(Raise("SSLError", -1, "too_large"), FALSE)
    ELSE IF NonblockingBreak(ss) \/ ~LoopAgain(r.err)
         THEN IF HandshakeFailed(r.ret)
              THEN Leave(PySSL_SetError(r.ret, r.err, e, sNone), TRUE)
              ELSE NewCert(Ok(0))
    ELSE Continue

\* PySSL_SSLwrite, from PyErr_CheckSignals() to the return
WriteOutcome(r, e, sig, ss, sNone) ==
    IF sig THEN Leave(Raise("Interrupt", -1, "interrupt"), FALSE)
    ELSE IF ss = "SOCKET_HAS_TIMED_OUT"
         THEN Leave(Raise("socket.timeout", -1, "timeout"), FALSE)
    ELSE IF ss = "SOCKET_HAS_BEEN_CLOSED"
         THEN Leave(Raise("SSLError", -1, "closed"), FALSE)
    ELSE IF NonblockingBreak(ss) \/ ~LoopAgain(r.err)
         THEN IF r.ret > 0
              THEN Leave(Ok(r.ret), FALSE)
              ELSE Leave(PySSL_SetError(r.ret, r.err, e, sNone), TRUE)
    ELSE Continue

\* PySSL_SSLread, from PyErr_CheckSignals() to the return; shut is
\* SSL_get_shutdown() after the step
ReadOutcome(r, e, sig, ss, sNone, shut) ==
    IF sig THEN Leave(Raise("Interrupt", -1, "interrupt"), FALSE)
    ELSE IF ~LoopAgain(r.err) /\ GracefulEOF(r.err, shut)
         THEN Leave(Ok(0), FALSE)
    ELSE IF ss = "SOCKET_HAS_TIMED_OUT"
         THEN Leave(Raise("socket.timeout", -1, "timeout"), FALSE)
    ELSE IF NonblockingBreak(ss) \/ ~LoopAgain(r.err)
         THEN IF r.ret <= 0
              THEN Leave(PySSL_SetError(r.ret, r.err, e, sNone), TRUE)
              ELSE Leave(Ok(r.ret), FALSE)
    ELSE Continue

\* PySSL_SSLshutdown, from the test of err after SSL_shutdown() to the
\* return; z is zeros before the step
ShutdownOutcome(r, e, ss, sNone, z) ==
    LET after == IF ShutdownFailed(r.ret)
                 THEN Leave(PySSL_SetError(r.ret, r.err, e, sNone), TRUE)
                 ELSE HandOver(Ok(0))
    IN  IF r.ret > 0 THEN after
        ELSE IF r.ret = 0
             THEN (IF ShutdownZeroCap(z + 1) THEN after ELSE Continue)
        ELSE IF ~LoopAgain(r.err) THEN after
        ELSE IF ss = "SOCKET_HAS_TIMED_OUT"
             THEN Leave(Raise("socket.timeout", -1, "timeout"), FALSE)
        ELSE IF ss = "SOCKET_TOO_LARGE_FOR_SELECT"
             THEN Leave(Raise("SSLError", -1, "too_large"), FALSE)
        ELSE IF ss # "SOCKET_OPERATION_OK" THEN after
        ELSE Continue

(***************************************************************************)
(* Inputs of the calls.                                                    *)
(***************************************************************************)
WriteLens == {1, INT_MAX, INT_MAX + 1}
ReadLens == {-1, 1, 2}
BufLens == {1, INT_MAX + 1}
\* SSL_get_peer_certificate(): NULL (0) or the peer's certificate (1)
Certs == {0, 1}

(***************************************************************************)
(* The Context (PySSLContext) and the threads that use it.  A thread runs  *)
(* interpreter code only while it holds the interpreter lock.              *)
(***************************************************************************)
Threads == {1, 2}

\* a thread outside any operation of the module
IdleThread ==
    [pc |-> "idle", op |-> "none", orig |-> 0, callable |-> FALSE,
     back |-> "", pwerr |-> FALSE, ret |-> "none", exc |-> "", val |-> 0]

\* variant: the macros are empty as in a build without threads
PyEval_SaveThread_empty(g, t) == g

\* PySSL_BEGIN_ALLOW_THREADS: PyEval_SaveThread() gives the lock up
PyEval_SaveThread(g, t) == IF g = t THEN 0 ELSE g

\* variant: the lock is not taken back
PyEval_RestoreThread_empty(g, t) == g

\* PySSL_END_ALLOW_THREADS: PyEval_RestoreThread() (likewise
\* PyGILState_Ensure()) waits until the lock is free and takes it
PyEval_RestoreThread(g, t) == t
LockFree(g) == g = 0

\* the thread returns r to its caller with the error indicator x
Returning(t, r, x, v) ==
    [t EXCEPT !.pc = "done", !.ret = r, !.exc = x, !.val = v]

\* variant: CERT_REQUIRED sets SSL_VERIFY_FAIL_IF_NO_PEER_CERT alone
VerifyMask_nopeer(n) ==
    CASE n = PY_SSL_CERT_NONE -> {}
      [] n = PY_SSL_CERT_OPTIONAL -> {"PEER"}
      [] OTHER -> {"FAIL_IF_NO_PEER_CERT"}

\* set_verify_mode: the bitmask for an accepted value
VerifyMask(n) ==
    CASE n = PY_SSL_CERT_NONE -> {}
      [] n = PY_SSL_CERT_OPTIONAL -> {"PEER"}
      [] OTHER -> {"PEER", "FAIL_IF_NO_PEER_CERT"}

\* if (n == PY_SSL_CERT_NONE) ... else if ... else ValueError
VerifyAccepted(n) ==
    n \in {PY_SSL_CERT_NONE, PY_SSL_CERT_OPTIONAL, PY_SSL_CERT_REQUIRED}

VerifyArgs == {-1, 0, 1, 2, 3}

(***************************************************************************)
(* Initial state: newPySSLSocket over a live, open socket.  The field      *)
(* shutdown_seen_zero is not assigned by the constructor.                  *)
(***************************************************************************)
ObjectsInit ==
    /\ alive = TRUE /\ extRefs = TRUE /\ held = FALSE
    /\ sock_timeout \in Timeouts
    /\ sock_closed = FALSE
    /\ peer_cert = 0
    /\ shutdown_seen_zero = "uninit"
    /\ readAheadDisabled = FALSE
    /\ errQueue = FALSE
    /\ sslShutdown = {}
    /\ op = "none" /\ pc = "idle"
    /\ ret = 0 /\ err = "NONE" /\ sockstate = "NONE"
    /\ zeros = 0 /\ reqlen = 0 /\ buflen = -1
    /\ result = NoResult
    /\ steps = 0
    /\ prevWantStop = FALSE /\ derefNone = FALSE /\ nbioSet = FALSE
    /\ goneAtEntry = FALSE /\ certFetched = FALSE
    /\ intr = FALSE /\ mapperArgs = NotMapped
    /\ gil = 0
    /\ th = [i \in Threads |-> IdleThread]
    /\ ctxCb = 0
    /\ ctxVerify = VerifyMask(PY_SSL_CERT_NONE)
    /\ lastSet = PY_SSL_CERT_NONE

\* no read call is running
NoReadArgs(tracked) == [tracked |-> tracked, bp |-> FALSE, l |-> 0, bl |-> -1]

\* the arguments read was called with
GivenReadArgs(g, bp, l, bl) ==
    IF g.tracked THEN [tracked |-> TRUE, bp |-> bp, l |-> l, bl |-> bl] ELSE g

ChannelInit == ObjectsInit /\ life = "untracked" /\ readArgs = NoReadArgs(FALSE)

\* no option setter and no load_verify_locations call has run yet
CfgIdle ==
    /\ optLog = NoOptCall
    /\ store = {}
    /\ lvlLog = NoLoadCall

\* no certificate, name or token function has been applied yet
PureIdle == call = [fn |-> "none", in |-> <<>>, out |-> <<>>]

Init ==
    /\ ChannelInit
    /\ haveClear = TRUE /\ ctxOptions = 0
    /\ CfgIdle
    /\ PureIdle

sockVars == <<sock_timeout, sock_closed>>

\* the caller enters operation o: the locals of the call are fresh
Enter(o) ==
    /\ pc = "idle"
    /\ op' = o
    /\ ret' = 0 /\ err' = "NONE" /\ zeros' = 0 /\ steps' = 0
    /\ goneAtEntry' = ~alive /\ certFetched' = FALSE
    /\ intr' = FALSE /\ mapperArgs' = NotMapped
    /\ UNCHANGED <<sockVars, shutdown_seen_zero, readAheadDisabled, sslShutdown,
                   prevWantStop,
                   peer_cert, ctxSide,
                   restSide>>

\* the "Underlying socket connection gone" exit: nothing but the error;
\* d: the guard read a field of the socket although the reference was dead
NoSocketExit(d) ==
    /\ result' = setSSLError(TRUE, PY_SSL_ERROR_NO_SOCKET, 0, "gone")
    /\ errQueue' = FALSE
    /\ pc' = "done"
    /\ sockstate' = "NONE" /\ nbioSet' = FALSE
    /\ reqlen' = 0 /\ buflen' = -1
    /\ derefNone' = (derefNone \/ d)
    /\ UNCHANGED <<alive, extRefs, held, life>>

\* Py_INCREF(sock): the socket object is touched
TakeSocket == derefNone' = (derefNone \/ ~alive)

\* the history after a call has ended with outcome out: an abort by a
\* signal is remembered for good, the first completed handshake (the exit
\* that fetches the peer certificate) until then
LifeAfter(l, out) ==
    IF l = "untracked" THEN l
    ELSE IF out.res.exc = "Interrupt" THEN "interrupted"
    ELSE IF l = "created" /\ out.cert THEN "established"
    ELSE l

\* Py_DECREF(sock) (or handing the reference to the caller) and return
Exit(out, q) ==
    /\ pc' = "done"
    /\ result' = out.res
    /\ life' = LifeAfter(life, out)
    /\ errQueue' = (q /\ ~out.clear)
    /\ held' = FALSE
    /\ extRefs' = (extRefs \/ out.hand)
    /\ alive' = (alive /\ (extRefs \/ out.hand))

\* the call goes on holding its reference
Stay(q) ==
    /\ pc' = "loop"
    /\ result' = NoResult
    /\ errQueue' = q
    /\ held' = TRUE
    /\ UNCHANGED <<alive, extRefs, life>>

Apply(out, q) == IF out.next = "done" THEN Exit(out, q) ELSE Stay(q)

\* the failures raised outside the error mapper
\* variant: the timeout is raised as the module's own error type
TimedOut_sslerror == Leave(Raise("SSLError", -1, "timeout"), FALSE)

TimedOut == Leave(Raise("socket.timeout", -1, "timeout"), FALSE)
\* variant: a closed socket is taken as end of data, as read does before
\* its first step
Closed_asEOF == Leave(Ok(0), FALSE)

Closed == Leave(Raise("SSLError", -1, "closed"), FALSE)
TooLarge == Leave(Raise("SSLError", -1, "too_large"), FALSE)
Overflow == Leave(Raise("OverflowError", -1, "overflow"), FALSE)
AllocFailed == Leave(Raise("SystemError", -1, "alloc"), FALSE)

\* the state after one engine step of class r followed by the wait ss
AfterStep(r, sig, ss) ==
    /\ ret' = r.ret /\ err' = r.err
    /\ steps' = Sat(steps)
    /\ sockstate' = IF sig THEN sockstate ELSE ss
    /\ intr' = sig
    /\ UNCHANGED <<ctxSide, restSide>>

(***************************************************************************)
(* do_handshake                                                            *)
(***************************************************************************)
HandshakeBegin ==
    /\ Enter("handshake")
    /\ UNCHANGED readArgs
    /\ IF SockIsNone(alive)
       THEN NoSocketExit(FALSE)
       ELSE /\ TakeSocket
            /\ nbioSet' = TRUE
            /\ Stay(errQueue)
            /\ sockstate' = "NONE"
            /\ reqlen' = 0 /\ buflen' = -1

HandshakeIter ==
    /\ pc = "loop" /\ op = "handshake"
    /\ \E r \in EngineResults({1}), sig \in BOOLEAN :
        \E ss \in WaitOutcomes(r.err, sock_timeout, sock_closed),
           c \in (IF r.ret > 0 /\ ~sig THEN Certs ELSE {0}) :
         LET q == errQueue \/ r.queued
             out == HandshakeOutcome(r, q, sig, ss, ~(alive /\ extRefs))
         IN  /\ AfterStep(r, sig, ss)
             /\ sslShutdown' = ShutdownAfter(sslShutdown, r)
             /\ peer_cert' = IF out.cert THEN c ELSE peer_cert
             /\ certFetched' = out.cert
             /\ mapperArgs' = IF out.clear THEN Mapped(q, ~(alive /\ extRefs))
                              ELSE NotMapped
             /\ prevWantStop' = (prevWantStop \/
                                 (~sig /\ LoopAgain(r.err) /\ out.next = "done"
                                  /\ ss = "SOCKET_IS_NONBLOCKING"))
             /\ Apply(out, q)
    /\ UNCHANGED <<sockVars, readArgs, shutdown_seen_zero, readAheadDisabled, op,
                   zeros, reqlen, buflen,
                   derefNone, nbioSet, goneAtEntry>>

(***************************************************************************)
(* write                                                                   *)
(***************************************************************************)
WriteBegin ==
    /\ Enter("write")
    /\ UNCHANGED readArgs
    /\ IF SockIsNone(alive)
       THEN NoSocketExit(FALSE)
       ELSE \E bl \in WriteLens, ss \in PreWaitOutcomes(sock_timeout, sock_closed) :
                  /\ TakeSocket
                  /\ buflen' = bl
                  /\ IF BufTooLong(bl)
                     THEN /\ Exit(Overflow, errQueue)
                          /\ nbioSet' = FALSE /\ reqlen' = 0
                          /\ sockstate' = "NONE"
                     ELSE /\ nbioSet' = TRUE
                          /\ reqlen' = ToInt(bl)
                          /\ sockstate' = ss
                          /\ CASE ss = "SOCKET_HAS_TIMED_OUT" ->
                                      Exit(TimedOut, errQueue)
                               [] ss = "SOCKET_HAS_BEEN_CLOSED" ->
                                      Exit(Closed, errQueue)
                               [] ss = "SOCKET_TOO_LARGE_FOR_SELECT" ->
                                      Exit(TooLarge, errQueue)
                               [] OTHER -> Stay(errQueue)

WriteIter ==
    /\ pc = "loop" /\ op = "write"
    /\ \E r \in EngineResults(IF reqlen > 0 THEN {reqlen} ELSE {}),
          sig \in BOOLEAN :
        \E ss \in WaitOutcomes(r.err, sock_timeout, sock_closed) :
         LET q == errQueue \/ r.queued
             out == WriteOutcome(r, q, sig, ss, ~(alive /\ extRefs))
         IN  /\ AfterStep(r, sig, ss)
             /\ sslShutdown' = ShutdownAfter(sslShutdown, r)
             /\ mapperArgs' = IF out.clear THEN Mapped(q, ~(alive /\ extRefs))
                              ELSE NotMapped
             /\ Apply(out, q)
    /\ UNCHANGED <<sockVars, readArgs, peer_cert, shutdown_seen_zero,
                   readAheadDisabled, op, zeros, reqlen,
                   buflen, prevWantStop, derefNone, nbioSet, goneAtEntry,
                   certFetched>>

(***************************************************************************)
(* read                                                                    *)
(***************************************************************************)
\* variant: if (len <= 0), a length beyond the buffer is kept
ReadArgs_positiveOnly(bp, l, bl) ==
    LET clip == bp /\ l <= 0
        n == IF clip THEN ToInt(bl) ELSE l
    IN  IF ~bp /\ l < 0 THEN [fail |-> "alloc", n |-> 0]
        ELSE IF clip /\ bl # n THEN [fail |-> "overflow", n |-> 0]
        ELSE [fail |-> "", n |-> n]

\* the argument handling of read: the count n handed to the engine, or the
\* failure of PyBytes_FromStringAndSize(NULL, len) / of the (int) conversion
ReadArgs(bp, l, bl) ==
    LET clip == bp /\ (l <= 0 \/ l > bl)
        n == IF clip THEN ToInt(bl) ELSE l
    IN  IF ~bp /\ l < 0 THEN [fail |-> "alloc", n |-> 0]
        ELSE IF clip /\ bl # n THEN [fail |-> "overflow", n |-> 0]
        ELSE [fail |-> "", n |-> n]

ReadBegin ==
    /\ Enter("read")
    /\ IF SockIsNone(alive)
       THEN NoSocketExit(FALSE) /\ UNCHANGED readArgs
       ELSE \E bp \in BOOLEAN, l \in ReadLens, bl \in BufLens, pend \in BOOLEAN :
             LET a == ReadArgs(bp, l, bl)
             IN  \E ss \in (IF pend \/ a.fail # "" THEN {"NONE"}
                            ELSE PreWaitOutcomes(sock_timeout, sock_closed)) :
                  /\ TakeSocket
                  /\ buflen' = -1
                  /\ readArgs' = GivenReadArgs(readArgs, bp, l, bl)
                  /\ IF a.fail # ""
                     THEN /\ Exit(IF a.fail = "overflow" THEN Overflow
                                  ELSE AllocFailed, errQueue)
                          /\ nbioSet' = FALSE /\ reqlen' = 0
                          /\ sockstate' = "NONE"
                     ELSE /\ nbioSet' = TRUE
                          /\ reqlen' = a.n
                          /\ sockstate' = ss
                          /\ CASE ss = "SOCKET_HAS_TIMED_OUT" ->
                                      Exit(TimedOut, errQueue)
                               [] ss = "SOCKET_TOO_LARGE_FOR_SELECT" ->
                                      Exit(TooLarge, errQueue)
                               [] ss = "SOCKET_HAS_BEEN_CLOSED" ->
                                      Exit(Leave(Ok(0), FALSE), errQueue)
                               [] OTHER -> Stay(errQueue)

ReadIter ==
    /\ pc = "loop" /\ op = "read"
    /\ \E r \in EngineResults(1..reqlen), sig \in BOOLEAN :
        \E ss \in WaitOutcomes(r.err, sock_timeout, sock_closed) :
         LET q == errQueue \/ r.queued
             shut == ShutdownAfter(sslShutdown, r)
             out == ReadOutcome(r, q, sig, ss, ~alive, shut)
         IN  /\ AfterStep(r, sig, ss)
             /\ sslShutdown' = shut
             /\ mapperArgs' = IF out.clear THEN Mapped(q, ~alive) ELSE NotMapped
             /\ Apply(out, q)
    /\ UNCHANGED <<sockVars, readArgs, peer_cert, shutdown_seen_zero,
                   readAheadDisabled, op, zeros, reqlen,
                   buflen, prevWantStop, derefNone, nbioSet, goneAtEntry,
                   certFetched>>

(***************************************************************************)
(* shutdown                                                                *)
(***************************************************************************)
ShutdownBegin ==
    /\ Enter("shutdown")
    /\ UNCHANGED readArgs
    /\ LET gone == SockIsNone(alive)
       IN  IF gone \/ sock_closed
           THEN NoSocketExit(~gone /\ ~alive)
           ELSE /\ TakeSocket
                /\ nbioSet' = TRUE
                /\ Stay(errQueue)
                /\ sockstate' = "NONE"
                /\ reqlen' = 0 /\ buflen' = -1

\* SSL_shutdown: 1 when both close-notify alerts are exchanged, 0 when ours
\* is sent and the peer's is still awaited
ShutdownStateAfter(s, r) ==
    IF r.ret > 0 THEN {"SENT", "RECEIVED"}
    ELSE IF r.ret = 0 THEN s \cup {"SENT"}
    ELSE ShutdownAfter(s, r)

\* the values "if (self->shutdown_seen_zero)" can read: 1 once the field
\* has been assigned, whatever the allocator left there before
SeenZeroReads(f) == IF f = "set" THEN {TRUE} ELSE BOOLEAN

ShutdownIter ==
    /\ pc = "loop" /\ op = "shutdown"
    /\ \E r \in EngineResults({1}), sig \in BOOLEAN,
          seen \in SeenZeroReads(shutdown_seen_zero) :
        \E ss \in WaitOutcomes(r.err, sock_timeout, sock_closed) :
         LET q == errQueue \/ r.queued
             consulted == r.ret < 0 /\ LoopAgain(r.err)
             out == ShutdownOutcome(r, q, ss, ~(alive /\ extRefs), zeros)
         IN  /\ ret' = r.ret
             /\ err' = IF r.ret < 0 THEN r.err ELSE err
             /\ steps' = Sat(steps)
             /\ zeros' = IF r.ret = 0 THEN zeros + 1 ELSE zeros
             /\ readAheadDisabled' = (readAheadDisabled \/ seen)
             /\ shutdown_seen_zero' =
                    IF r.ret = 0 /\ out.next = "loop" THEN "set" ELSE shutdown_seen_zero
             /\ sslShutdown' = ShutdownStateAfter(sslShutdown, r)
             /\ sockstate' = IF consulted THEN ss ELSE sockstate
             /\ intr' = sig
             /\ mapperArgs' = IF out.clear THEN Mapped(q, ~(alive /\ extRefs))
                              ELSE NotMapped
             /\ Apply(out, q)
    /\ UNCHANGED <<sockVars, readArgs, peer_cert, op, reqlen, buflen, prevWantStop,
                   derefNone, nbioSet, goneAtEntry, certFetched, ctxSide, restSide>>

(***************************************************************************)
(* pending: one call of SSL_pending, no use of the socket, no loop.        *)
(***************************************************************************)
\* what SSL_pending can report to "if (count < 0)"
PendingCounts == {-1, 0, 1}

\* if (count < 0) return PySSL_SetError(...); else return the count
PendingFailed(count) == count < 0

Pending ==
    /\ pc = "idle"
    /\ \E count \in PendingCounts, r \in {f \in EngineFailures : f.ret = -1} :
         LET failed == PendingFailed(count)
             q == errQueue \/ (failed /\ r.queued)
         IN  /\ op' = "pending" /\ pc' = "done"
             /\ ret' = count
             /\ err' = IF failed THEN r.err ELSE "NONE"
             /\ result' = IF failed THEN PySSL_SetError(count, r.err, q, ~alive)
                           ELSE Ok(count)
             /\ errQueue' = (q /\ ~failed)
             /\ mapperArgs' = IF failed THEN Mapped(q, ~alive) ELSE NotMapped
    /\ zeros' = 0 /\ steps' = 0 /\ reqlen' = 0 /\ buflen' = -1
    /\ sockstate' = "NONE" /\ nbioSet' = FALSE
    /\ goneAtEntry' = FALSE /\ certFetched' = FALSE /\ intr' = FALSE
    /\ UNCHANGED <<alive, extRefs, held, sockVars, readArgs, peer_cert, shutdown_seen_zero,
                   readAheadDisabled, sslShutdown, prevWantStop, derefNone, life,
                   ctxSide, restSide>>

(***************************************************************************)
(* The return statement: the result goes to the caller and the locals of   *)
(* the call die.  The call holds the interpreter lock from the end of its  *)
(* loop to here, so no other thread runs in between.                       *)
(***************************************************************************)
Return ==
    /\ pc = "done"
    /\ pc' = "idle" /\ op' = "none"
    /\ ret' = 0 /\ err' = "NONE" /\ sockstate' = "NONE"
    /\ zeros' = 0 /\ reqlen' = 0 /\ buflen' = -1
    /\ result' = NoResult
    /\ steps' = 0
    /\ nbioSet' = FALSE /\ goneAtEntry' = FALSE /\ certFetched' = FALSE
    /\ intr' = FALSE /\ mapperArgs' = NotMapped
    /\ readArgs' = NoReadArgs(readArgs.tracked)
    /\ UNCHANGED <<alive, extRefs, held, sockVars, peer_cert, shutdown_seen_zero,
                   readAheadDisabled,
                   errQueue, sslShutdown, prevWantStop, derefNone, life,
                   ctxSide, restSide>>

(***************************************************************************)
(* The other threads: they may change the socket while the call has the    *)
(* interpreter lock released, and between calls.                           *)
(***************************************************************************)
callVars == <<peer_cert, shutdown_seen_zero, readAheadDisabled, errQueue, sslShutdown, op, pc,
              ret, err, sockstate, zeros, reqlen, buflen, result, steps,
              prevWantStop, derefNone, nbioSet, goneAtEntry, certFetched,
              intr, mapperArgs, readArgs, life, ctxSide, restSide>>

SetTimeout ==
    /\ pc # "done"
    /\ alive
    /\ \E t \in Timeouts \ {sock_timeout} : sock_timeout' = t
    /\ UNCHANGED <<alive, extRefs, held, sock_closed, callVars>>

CloseSocket ==
    /\ pc # "done"
    /\ alive /\ ~sock_closed
    /\ sock_closed' = TRUE
    /\ UNCHANGED <<alive, extRefs, held, sock_timeout, callVars>>

\* the last outside owner drops the socket
DropSocket ==
    /\ pc # "done"
    /\ extRefs
    /\ extRefs' = FALSE
    /\ alive' = (alive /\ held)
    /\ UNCHANGED <<held, sockVars, callVars>>

Next ==
    \/ HandshakeBegin \/ HandshakeIter
    \/ WriteBegin \/ WriteIter
    \/ ReadBegin \/ ReadIter
    \/ ShutdownBegin \/ ShutdownIter
    \/ Pending
    \/ Return
    \/ SetTimeout \/ CloseSocket \/ DropSocket

Spec == Init /\ [][Next]_vars

\* the running call is scheduled again until it returns
CallStep == HandshakeIter \/ WriteIter \/ ReadIter \/ ShutdownIter

FairSpec == Spec /\ WF_vars(CallStep)

\* the same program with the history of the SSL object recorded
LifeInit ==
    /\ ObjectsInit
    /\ life = "created"
    /\ readArgs = NoReadArgs(FALSE)
    /\ haveClear = TRUE /\ ctxOptions = 0
    /\ CfgIdle
    /\ PureIdle

LifeSpec == LifeInit /\ [][Next]_vars

\* the read operation alone, with the arguments of each call recorded
ReadInit ==
    /\ ObjectsInit
    /\ life = "untracked"
    /\ readArgs = NoReadArgs(TRUE)
    /\ haveClear = TRUE /\ ctxOptions = 0
    /\ CfgIdle
    /\ PureIdle

ReadNext ==
    \/ ReadBegin \/ ReadIter
    \/ Return
    \/ SetTimeout \/ CloseSocket \/ DropSocket

ReadSpec == ReadInit /\ [][ReadNext]_vars

(***************************************************************************)
(* Context operations.                                                     *)
(***************************************************************************)
\* the thread's call returns: it goes on elsewhere in the interpreter
ThreadReturn ==
    \E i \in Threads :
        /\ th[i].pc = "done"
        /\ th' = [th EXCEPT ![i] = IdleThread]
        /\ gil' = IF gil = i THEN 0 ELSE gil
        /\ UNCHANGED <<sockSide, restSide, ctxCb, ctxVerify, lastSet>>

get_verify_mode ==
    \E i \in Threads :
        /\ th[i].pc = "idle" /\ LockFree(gil)
        /\ gil' = i
        /\ LET t == [th[i] EXCEPT !.op = "get_verify_mode"]
           IN  th' = [th EXCEPT ![i] =
                   CASE ctxVerify = {} ->
                            Returning(t, "value", "", PY_SSL_CERT_NONE)
                     [] ctxVerify = {"PEER"} ->
                            Returning(t, "value", "", PY_SSL_CERT_OPTIONAL)
                     [] ctxVerify = {"PEER", "FAIL_IF_NO_PEER_CERT"} ->
                            Returning(t, "value", "", PY_SSL_CERT_REQUIRED)
                     [] OTHER -> Returning(t, "NULL", "SSLError", 0)]
        /\ UNCHANGED <<sockSide, restSide, ctxCb, ctxVerify, lastSet>>

set_verify_mode ==
    \E i \in Threads, isInt \in BOOLEAN, n \in VerifyArgs :
        /\ th[i].pc = "idle" /\ LockFree(gil)
        /\ gil' = i
        /\ LET t == [th[i] EXCEPT !.op = "set_verify_mode"]
           IN  IF ~isInt
               THEN /\ th' = [th EXCEPT ![i] = Returning(t, "NULL", "TypeError", -1)]
                    /\ UNCHANGED <<ctxVerify, lastSet>>
               ELSE IF ~VerifyAccepted(n)
               THEN /\ th' = [th EXCEPT ![i] = Returning(t, "NULL", "ValueError", -1)]
                    /\ UNCHANGED <<ctxVerify, lastSet>>
               ELSE /\ th' = [th EXCEPT ![i] = Returning(t, "value", "", 0)]
                    /\ ctxVerify' = VerifyMask(n)
                    /\ lastSet' = n
        /\ UNCHANGED <<sockSide, restSide, ctxCb>>

\* load_dh_params up to PEM_read_DHparams, which runs without the lock
load_dh_params_open ==
    \E i \in Threads, opened \in BOOLEAN :
        /\ th[i].pc = "idle" /\ LockFree(gil)
        /\ LET t == [th[i] EXCEPT !.op = "load_dh_params"]
           IN  IF ~opened
               THEN /\ th' = [th EXCEPT ![i] = Returning(t, "NULL", "OSError", 0)]
                    /\ gil' = i
               ELSE /\ th' = [th EXCEPT ![i] = [t EXCEPT !.pc = "dh_read"]]
                    /\ gil' = PyEval_SaveThread(i, i)
        /\ UNCHANGED <<sockSide, restSide, ctxCb, ctxVerify, lastSet>>

\* load_dh_params from PySSL_END_ALLOW_THREADS to its return
load_dh_params_read ==
    \E i \in Threads, dh \in BOOLEAN, errnoSet \in BOOLEAN, set \in BOOLEAN :
        /\ th[i].pc = "dh_read" /\ LockFree(gil)
        /\ gil' = PyEval_RestoreThread(gil, i)
        /\ th' = [th EXCEPT ![i] =
               IF ~dh
               THEN (IF errnoSet THEN Returning(th[i], "NULL", "OSError", 0)
                     ELSE Returning(th[i], "NULL", "SSLError", 0))
               ELSE IF ~set
                    THEN \* _setSSLError(...) and no return: falls to Py_RETURN_NONE
                         Returning(th[i], "value", "SSLError", 0)
                    ELSE Returning(th[i], "value", "", 0)]
        /\ UNCHANGED <<sockSide, restSide, ctxCb, ctxVerify, lastSet>>

\* what the caller of load_cert_chain passes: arguments that do not parse, a
\* certfile or keyfile that is no path, and the kinds of password
CertChainArgs ==
    {"badargs", "badcertfile", "badkeyfile", "nopassword", "callable",
     "string", "badtype", "toolong", "nomem"}

\* _pwinfo_set failing on a password that is given directly
PwinfoError(a) ==
    CASE a = "badtype" -> "TypeError"
      [] a = "toolong" -> "ValueError"
      [] OTHER -> "MemoryError"

\* load_cert_chain up to SSL_CTX_use_certificate_chain_file, which runs
\* without the lock
load_cert_chain_begin ==
    \E i \in Threads, a \in CertChainArgs :
        /\ th[i].pc = "idle" /\ LockFree(gil)
        /\ LET t == [th[i] EXCEPT !.op = "load_cert_chain", !.orig = ctxCb,
                                  !.callable = (a = "callable")]
           IN  IF a \in {"badargs", "badcertfile"}
               THEN \* return NULL before anything is installed
                    /\ th' = [th EXCEPT ![i] = Returning(t, "NULL", "TypeError", 0)]
                    /\ gil' = i
                    /\ UNCHANGED ctxCb
               ELSE IF a = "badkeyfile"
               THEN \* goto error
                    /\ th' = [th EXCEPT ![i] = Returning(t, "NULL", "TypeError", 0)]
                    /\ gil' = i
                    /\ ctxCb' = t.orig
               ELSE IF a \in {"badtype", "toolong", "nomem"}
               THEN \* goto error
                    /\ th' = [th EXCEPT ![i] =
                                 Returning(t, "NULL", PwinfoError(a), 0)]
                    /\ gil' = i
                    /\ ctxCb' = t.orig
               ELSE /\ th' = [th EXCEPT ![i] = [t EXCEPT !.pc = "chain"]]
                    /\ ctxCb' = IF a = "nopassword" THEN ctxCb ELSE i
                    /\ gil' = PyEval_SaveThread(i, i)
        /\ UNCHANGED <<sockSide, restSide, ctxVerify, lastSet>>

\* the stages of load_cert_chain that run in the engine without the lock
CertChainNext(stage) ==
    CASE stage = "chain" -> "key"
      [] stage = "key" -> "check"
      [] OTHER -> "done"

\* load_cert_chain: an engine stage has ended with result r; from
\* PySSL_END_ALLOW_THREADS_S to the next stage or to the return
load_cert_chain_stage ==
    \E i \in Threads, r \in {0, 1}, errnoSet \in BOOLEAN :
        /\ th[i].pc \in {"chain", "key", "check"} /\ LockFree(gil)
        /\ th[i].pwerr => r # 1
        /\ LET t == th[i]
               taken == PyEval_RestoreThread(gil, i)
           IN  IF r # 1
               THEN \* goto error
                    /\ th' = [th EXCEPT ![i] =
                          Returning(t, "NULL",
                              IF t.pc = "check" THEN "SSLError"
                              ELSE IF t.pwerr THEN "CallbackError"
                              ELSE IF errnoSet THEN "IOError"
                              ELSE "SSLError", 0)]
                    /\ ctxCb' = t.orig
                    /\ gil' = taken
               ELSE IF CertChainNext(t.pc) = "done"
               THEN /\ th' = [th EXCEPT ![i] = Returning(t, "value", "", 0)]
                    /\ ctxCb' = t.orig
                    /\ gil' = taken
               ELSE /\ th' = [th EXCEPT ![i] = [t EXCEPT !.pc = CertChainNext(t.pc)]]
                    /\ gil' = PyEval_SaveThread(taken, i)
                    /\ UNCHANGED ctxCb
        /\ UNCHANGED <<sockSide, restSide, ctxVerify, lastSet>>

\* _password_callback is entered from the engine, inside a stage that reads
\* a PEM file with the pair of this call installed
password_callback_enter ==
    \E i \in Threads :
        /\ th[i].pc \in {"chain", "key"} /\ ctxCb = i /\ ~th[i].pwerr
        /\ LockFree(gil)
        /\ gil' = PyEval_RestoreThread(gil, i)
        /\ th' = [th EXCEPT ![i] = [@ EXCEPT !.pc = "pwcb", !.back = th[i].pc]]
        /\ UNCHANGED <<sockSide, restSide, ctxCb, ctxVerify, lastSet>>

\* what the trampoline meets: the callable raises or returns no string, the
\* password does not fit the engine's buffer, or all is well
CallbackOutcomes(callable) ==
    IF callable THEN {"ok", "raised", "badtype", "toolong"} ELSE {"ok", "toolong"}

\* _password_callback returns to the engine
password_callback_leave ==
    \E i \in Threads :
        \E o \in CallbackOutcomes(th[i].callable) :
            /\ th[i].pc = "pwcb"
            /\ gil' = PyEval_SaveThread(gil, i)
            /\ th' = [th EXCEPT ![i] = [@ EXCEPT !.pc = th[i].back, !.back = "",
                                                 !.pwerr = (o # "ok")]]
            /\ UNCHANGED <<sockSide, restSide, ctxCb, ctxVerify, lastSet>>

(***************************************************************************)
(* The four socket operations as the lock sees them: the places where a    *)
(* call gives the interpreter lock up (SSL_pending, the engine step,       *)
(* poll() / select(), SSL_get_peer_certificate) and every path between     *)
(* them.  Which path is taken is decided by the data, modelled above.      *)
(***************************************************************************)
SockOps == {"do_handshake", "read", "write", "shutdown"}

\* from the entry of the operation to the first place where the lock is
\* given up, or to an early return
sock_op_begin ==
    \E i \in Threads, o \in SockOps, path \in {"fail", "wait", "go"} :
        /\ th[i].pc = "idle" /\ LockFree(gil)
        /\ path = "wait" => o = "write"
        /\ LET t == [th[i] EXCEPT !.op = o]
           IN  IF path = "fail"
               THEN /\ th' = [th EXCEPT ![i] = Returning(t, "NULL", "SSLError", 0)]
                    /\ gil' = i
               ELSE /\ th' = [th EXCEPT ![i] =
                          IF o = "read" THEN [t EXCEPT !.pc = "pending"]
                          ELSE IF path = "wait"
                               THEN [t EXCEPT !.pc = "poll", !.back = "pre"]
                          ELSE [t EXCEPT !.pc = "engine"]]
                    /\ gil' = PyEval_SaveThread(i, i)
        /\ UNCHANGED <<sockSide, restSide, ctxCb, ctxVerify, lastSet>>

\* read: from the end of SSL_pending to the first wait or engine step
sock_op_pending ==
    \E i \in Threads, path \in {"engine", "poll", "fail", "empty"} :
        /\ th[i].pc = "pending" /\ LockFree(gil)
        /\ LET t == th[i]
               taken == PyEval_RestoreThread(gil, i)
           IN  CASE path = "engine" ->
                        /\ th' = [th EXCEPT ![i] = [t EXCEPT !.pc = "engine"]]
                        /\ gil' = PyEval_SaveThread(taken, i)
                 [] path = "poll" ->
                        /\ th' = [th EXCEPT ![i] =
                                     [t EXCEPT !.pc = "poll", !.back = "pre"]]
                        /\ gil' = PyEval_SaveThread(taken, i)
                 [] path = "fail" ->
                        /\ th' = [th EXCEPT ![i] =
                                     Returning(t, "NULL", "SSLError", 0)]
                        /\ gil' = taken
                 [] OTHER ->
                        /\ th' = [th EXCEPT ![i] = Returning(t, "value", "", 0)]
                        /\ gil' = taken
        /\ UNCHANGED <<sockSide, restSide, ctxCb, ctxVerify, lastSet>>

\* check_socket_and_wait_for_timeout from the end of poll() / select(), and
\* the caller up to its next engine step or its return
sock_op_poll ==
    \E i \in Threads, timedOut \in BOOLEAN :
        /\ th[i].pc = "poll" /\ LockFree(gil)
        /\ LET t == th[i]
               taken == PyEval_RestoreThread(gil, i)
           IN  IF timedOut
               THEN /\ th' = [th EXCEPT ![i] =
                                 Returning(t, "NULL", "socket.timeout", 0)]
                    /\ gil' = taken
               ELSE /\ th' = [th EXCEPT ![i] =
                                 [t EXCEPT !.pc = "engine", !.back = ""]]
                    /\ gil' = PyEval_SaveThread(taken, i)
        /\ UNCHANGED <<sockSide, restSide, ctxCb, ctxVerify, lastSet>>

\* from the end of an engine step to the wait, the next step, the
\* certificate fetch of a completed handshake, or the return
sock_op_engine ==
    \E i \in Threads, path \in {"interrupt", "poll", "again", "fail", "ok"} :
        /\ th[i].pc = "engine" /\ LockFree(gil)
        /\ path = "interrupt" => th[i].op # "shutdown"
        /\ LET t == th[i]
               taken == PyEval_RestoreThread(gil, i)
           IN  CASE path = "interrupt" ->
                        /\ th' = [th EXCEPT ![i] =
                                     Returning(t, "NULL", "Interrupt", 0)]
                        /\ gil' = taken
                 [] path = "poll" ->
                        /\ th' = [th EXCEPT ![i] =
                                     [t EXCEPT !.pc = "poll", !.back = "loop"]]
                        /\ gil' = PyEval_SaveThread(taken, i)
                 [] path = "again" ->
                        /\ th' = [th EXCEPT ![i] = [t EXCEPT !.pc = "engine"]]
                        /\ gil' = PyEval_SaveThread(taken, i)
                 [] path = "fail" ->
                        /\ th' = [th EXCEPT ![i] =
                                     Returning(t, "NULL", "SSLError", 0)]
                        /\ gil' = taken
                 [] OTHER ->
                        IF t.op = "do_handshake"
                        THEN /\ th' = [th EXCEPT ![i] = [t EXCEPT !.pc = "getcert"]]
                             /\ gil' = PyEval_SaveThread(taken, i)
                        ELSE /\ th' = [th EXCEPT ![i] =
                                          Returning(t, "value", "", 0)]
                             /\ gil' = taken
        /\ UNCHANGED <<sockSide, restSide, ctxCb, ctxVerify, lastSet>>

\* do_handshake from the end of SSL_get_peer_certificate to the return
sock_op_getcert ==
    \E i \in Threads :
        /\ th[i].pc = "getcert" /\ LockFree(gil)
        /\ gil' = PyEval_RestoreThread(gil, i)
        /\ th' = [th EXCEPT ![i] = Returning(th[i], "value", "", 0)]
        /\ UNCHANGED <<sockSide, restSide, ctxCb, ctxVerify, lastSet>>

\* _servername_callback is entered from the engine during a handshake step:
\* PyGILState_Ensure()
servername_callback_enter ==
    \E i \in Threads :
        /\ th[i].pc = "engine" /\ th[i].op = "do_handshake"
        /\ LockFree(gil)
        /\ gil' = PyEval_RestoreThread(gil, i)
        /\ th' = [th EXCEPT ![i] = [@ EXCEPT !.pc = "snicb"]]
        /\ UNCHANGED <<sockSide, restSide, ctxCb, ctxVerify, lastSet>>

\* _servername_callback returns to the engine on any of its paths:
\* PyGILState_Release()
servername_callback_leave ==
    \E i \in Threads :
        /\ th[i].pc = "snicb"
        /\ gil' = PyEval_SaveThread(gil, i)
        /\ th' = [th EXCEPT ![i] = [@ EXCEPT !.pc = "engine"]]
        /\ UNCHANGED <<sockSide, restSide, ctxCb, ctxVerify, lastSet>>

\* the places where a thread is inside a blocking call of the engine or of
\* the operating system
BlockingPoints ==
    {"pending", "poll", "engine", "getcert", "dh_read", "chain", "key", "check"}

\* the places where a Python callable runs under a trampoline
CallbackPoints == {"pwcb", "snicb"}

CtxNext ==
    \/ get_verify_mode \/ set_verify_mode
    \/ load_dh_params_open \/ load_dh_params_read
    \/ load_cert_chain_begin \/ load_cert_chain_stage
    \/ password_callback_enter \/ password_callback_leave
    \/ sock_op_begin \/ sock_op_pending \/ sock_op_poll \/ sock_op_engine
    \/ sock_op_getcert
    \/ servername_callback_enter \/ servername_callback_leave
    \/ ThreadReturn

\* the Context alone, used by two threads
CtxInit == Init /\ sock_timeout = -1

CtxSpec == CtxInit /\ [][CtxNext]_vars

(***************************************************************************)
(* Configuration of a Context: the options setter and the trust store.     *)
(***************************************************************************)
set_options ==
    \E a \in SetOptionsArgs :
        LET new_opts == a.v
            opts == ctxOptions
            clear == ClearMask(opts, new_opts)
            set == SetMask(opts, new_opts)
            cleared == IF clear # 0 THEN BitAnd(opts, BitNot(clear)) ELSE opts
        IN  /\ IF ~a.isLong
               THEN /\ optLog' = OptCall(0, opts, 0, 0, -1, "TypeError")
                    /\ ctxOptions' = ctxOptions
               ELSE IF clear # 0 /\ ~haveClear
               THEN /\ optLog' = OptCall(new_opts, opts, 0, 0, -1, "ValueError")
                    /\ ctxOptions' = ctxOptions
               ELSE /\ optLog' = OptCall(new_opts, opts, clear, set, 0, "")
                    /\ ctxOptions' = IF set # 0 THEN BitOr(cleared, set)
                                     ELSE cleared
            /\ lvlLog' = NoLoadCall
            /\ UNCHANGED <<sockSide, ctxSide, pureSide, haveClear, store>>

load_verify_locations ==
    \E cafile \in PathArgs, capath \in PathArgs :
        LET early ==
                IF PathIsNull(cafile) /\ PathIsNull(capath) THEN "TypeError"
                ELSE IF cafile = "notpath" \/ capath = "notpath" THEN "TypeError"
                ELSE ""
            given == {x \in {"cafile", "capath"} :
                          \/ x = "cafile" /\ ~PathIsNull(cafile)
                          \/ x = "capath" /\ ~PathIsNull(capath)}
        IN  /\ IF early # ""
               THEN /\ lvlLog' = LoadCall(cafile, capath, FALSE, FALSE, "NULL", early)
                    /\ store' = store
               ELSE \E e \in EngineLoads :
                        IF e = "ok"
                        THEN /\ lvlLog' = LoadCall(cafile, capath,
                                                   ~(given \subseteq store), TRUE,
                                                   "None", "")
                             /\ store' = store \cup given
                        ELSE \* the engine may have loaded part of the locations
                             \* before it failed
                             \E part \in SUBSET given :
                                 /\ lvlLog' = LoadCall(cafile, capath,
                                                       ~(part \subseteq store), TRUE,
                                                       "NULL",
                                                       IF e = "errno" THEN "IOError"
                                                       ELSE "SSLError")
                                 /\ store' = store \cup part
            /\ optLog' = NoOptCall
            /\ UNCHANGED <<sockSide, ctxSide, pureSide, haveClear, ctxOptions>>

CfgNext == set_options \/ load_verify_locations

\* a Context of either build, with whatever options the engine starts with
CfgInit ==
    /\ ChannelInit
    /\ sock_timeout = -1
    /\ haveClear \in BOOLEAN
    /\ ctxOptions \in Masks
    /\ CfgIdle
    /\ PureIdle

CfgSpec == CfgInit /\ [][CfgNext]_vars

(***************************************************************************)
(* Functions of the module applied to drawn arguments.                     *)
(***************************************************************************)
\* everything but the record of the function applied last
otherSides == <<sockSide, ctxSide, cfgSide>>

apply_servername_callback ==
    \E in \in SniInputs :
        /\ call' = [fn |-> "_servername_callback",
                    in |-> in,
                    out |-> servername_callback(in)]
        /\ UNCHANGED otherSides

apply_check_socket_and_wait_for_timeout ==
    \E t \in Timeouts, closed \in BOOLEAN, m \in MuxKinds, rc \in PollRc,
       writing \in BOOLEAN :
        /\ call' = [fn |-> "check_socket_and_wait_for_timeout",
                    in |-> [t |-> t, closed |-> closed, mux |-> m, rc |-> rc,
                        writing |-> writing],
                    out |-> [state |-> check_socket_and_wait_for_timeout(t, closed, m, rc),
                       waited |-> WaitedOn(t, closed, m, writing)]]
        /\ UNCHANGED otherSides

apply_create_tuple_for_X509_NAME ==
    \E xname \in Names :
        /\ call' = [fn |-> "_create_tuple_for_X509_NAME",
                    in |-> xname,
                    out |-> create_tuple_for_X509_NAME(xname)]
        /\ UNCHANGED otherSides

apply_get_peer_alt_names ==
    \E certificate \in Certificates :
        /\ call' = [fn |-> "_get_peer_alt_names",
                    in |-> certificate,
                    out |-> get_peer_alt_names(certificate)]
        /\ UNCHANGED otherSides

apply_peercert ==
    \E cert \in PeerCerts, binary_mode \in BOOLEAN, verification \in VerifyMasks :
        /\ call' = [fn |-> "PySSL_peercert",
                    in |-> [cert |-> cert, der |-> binary_mode,
                            verification |-> verification],
                    out |-> PySSL_peercert(cert, binary_mode, verification)]
        /\ UNCHANGED otherSides

\* the two endpoints of one session ask for the token
apply_tls_unique_cb ==
    \E reused \in {0, 1}, clientFin \in Finished, serverFin \in Finished :
        /\ call' = [fn |-> "PySSL_tls_unique_cb",
                    in |-> [reused |-> reused, clientFin |-> clientFin,
                            serverFin |-> serverFin],
                    out |-> [client |-> PySSL_tls_unique_cb(reused, PY_SSL_CLIENT,
                                                           clientFin, serverFin),
                             server |-> PySSL_tls_unique_cb(reused, PY_SSL_SERVER,
                                                           serverFin, clientFin)]]
        /\ UNCHANGED otherSides

PureNext ==
    \/ apply_servername_callback
    \/ apply_peercert
    \/ apply_tls_unique_cb
    \/ apply_create_tuple_for_X509_NAME
    \/ apply_get_peer_alt_names
    \/ apply_check_socket_and_wait_for_timeout

PureInit == Init /\ sock_timeout = -1

PureSpec == PureInit /\ [][PureNext]_vars

(***************************************************************************)
(* Properties.                                                             *)
(***************************************************************************)

C2_ShutdownZeroAtMostTwice ==
    op = "shutdown" => (zeros <= 2 /\ (zeros = 2 => pc = "done"))

\* a shutdown call returned after two zero results with a wait in between
C2_TwoZerosSeen ==
    /\ op = "shutdown" /\ pc = "done" /\ zeros = 2
    /\ sockstate = "SOCKET_OPERATION_OK"

\* C3: a call that found the weak socket reference dead has failed at once:
\* it never enters its loop, performed no engine step, no wait, set no mode
\* on the engine's transport, and the dead socket is never dereferenced.
C3_DeadSocketFailsAtOnce ==
    /\ ~derefNone
    /\ goneAtEntry =>
          /\ pc = "done" /\ result.kind = "error" /\ result.msg = "gone"
          /\ steps = 0 /\ sockstate = "NONE" /\ ~nbioSet

\* a read was called on a channel whose socket is gone
C3_ReadOnDeadSocket == goneAtEntry /\ op = "read" /\ pc = "done"

\* C4 (as stated): the error of the socket-gone exit carries the no-socket
\* member of the classification as its numeric code.
C4_NoSocketCode ==
    (pc = "done" /\ result.kind = "error" /\ result.msg = "gone") =>
        result.code = PY_SSL_ERROR_NO_SOCKET

\* C5 (as stated): a nonblocking handshake whose first engine step reports
\* want-read returns to the caller without raising an error.
C5_WantReadWithoutRaising ==
    (/\ op = "handshake" /\ pc = "done" /\ steps = 1
     /\ err = "WANT_READ" /\ sockstate = "SOCKET_IS_NONBLOCKING") =>
        result.kind # "error"

\* C5: a nonblocking handshake whose first engine step reports want-read
\* ends after that single step by raising SSLWantReadError, whose numeric
\* code is the want-read member of the classification; the peer certificate
\* is not touched.
C5_WantReadIsRaised ==
    (/\ op = "handshake" /\ pc = "done" /\ steps = 1
     /\ err = "WANT_READ" /\ sockstate = "SOCKET_IS_NONBLOCKING") =>
        /\ result.kind = "error"
        /\ result.exc = "SSLWantReadError"
        /\ result.code = PY_SSL_ERROR_WANT_READ
        /\ ~certFetched

\* the nonblocking handshake stopped after its first step on want-read
C5_StoppedOnWantRead ==
    /\ op = "handshake" /\ pc = "done" /\ steps = 1
    /\ err = "WANT_READ" /\ sockstate = "SOCKET_IS_NONBLOCKING"
    /\ sock_timeout = 0

\* C6: after a handshake call stopped on the nonblocking short-circuit, a
\* later handshake call whose engine step completes (result >= 1, no
\* interrupt pending) returns success and installs the peer certificate.
C6_RetryableAfterNonblockingStop ==
    (/\ op = "handshake" /\ pc = "done" /\ prevWantStop
     /\ ret >= 1 /\ result.exc # "Interrupt") =>
        (result.kind = "ok" /\ certFetched)

\* a handshake succeeded on a channel where an earlier one had stopped
C6_SecondCallSucceeded ==
    /\ op = "handshake" /\ pc = "done" /\ prevWantStop
    /\ result.kind = "ok" /\ certFetched /\ peer_cert # 0

\* C7: handshake returns success only when the last engine step reported no
\* error with a result >= 1; a last result of 0 or below makes the call
\* fail; the cached peer certificate is replaced exactly on success.
C7_SuccessOnlyOnPositiveResult ==
    (op = "handshake" /\ pc = "done" /\ ~goneAtEntry) =>
        /\ result.kind = "ok" => (ret >= 1 /\ err = "NONE")
        /\ ret < 1 => result.kind = "error"
        /\ certFetched <=> result.kind = "ok"

\* a handshake failed on a last result of 0 and the certificate cached by an
\* earlier success is still in place
C7_ZeroResultFails ==
    /\ op = "handshake" /\ pc = "done" /\ steps >= 1 /\ ret = 0
    /\ result.kind = "error" /\ ~certFetched /\ peer_cert # 0

\* C8 (as stated): a read whose engine step reports the peer's close-notify
\* (no interrupt pending) returns an empty result and does not fail,
\* whatever the local side has sent before.
C8_EmptyAfterCloseNotify ==
    (/\ op = "read" /\ pc = "done" /\ steps >= 1 /\ err = "ZERO_RETURN"
     /\ "RECEIVED" \in sslShutdown /\ result.exc # "Interrupt") =>
        (result.kind = "ok" /\ result.value = 0)

\* C8: a read whose engine step reports the peer's close-notify (no
\* interrupt pending) returns an empty result when the local side has not
\* sent its own close-notify; when it has, the read fails with
\* SSLZeroReturnError.
C8_EmptyUnlessLocallyShutDown ==
    (/\ op = "read" /\ pc = "done" /\ steps >= 1 /\ err = "ZERO_RETURN"
     /\ "RECEIVED" \in sslShutdown /\ result.exc # "Interrupt") =>
        IF "SENT" \in sslShutdown
        THEN /\ result.kind = "error" /\ result.exc = "SSLZeroReturnError"
             /\ result.code = PY_SSL_ERROR_ZERO_RETURN
        ELSE result.kind = "ok" /\ result.value = 0

\* a read met the peer's close-notify and returned the empty result
C8_GracefulEOFSeen ==
    /\ op = "read" /\ pc = "done" /\ err = "ZERO_RETURN"
    /\ sslShutdown = {"RECEIVED"} /\ result.kind = "ok" /\ result.value = 0

\* C9: a write whose buffer is longer than INT_MAX fails with
\* OverflowError, and the call performs no engine step and no wait.
C9_OversizedWriteOverflows ==
    (op = "write" /\ pc = "done" /\ buflen > INT_MAX) =>
        /\ result.kind = "error" /\ result.exc = "OverflowError"
        /\ steps = 0 /\ sockstate = "NONE" /\ ~nbioSet

\* a write was called with a buffer one byte longer than INT_MAX
C9_OversizedWriteSeen ==
    op = "write" /\ pc = "done" /\ buflen = INT_MAX + 1 /\ result.kind = "error"

\* C10 (as stated): whenever an operation has returned, on whatever exit
\* path, the engine's pending error queue is empty.
C10_QueueEmptyAfterReturn == pc = "done" => ~errQueue

\* C12 (as stated): every transport failure of the four operations (wait
\* timed out, socket closed, too large for select, hard I/O failure) is
\* raised with a type other than the one used for protocol failures.
C12_TransportTypeDiffers ==
    (pc = "done" /\ result.msg \in {"timeout", "closed", "too_large", "errorhandler"})
        => result.exc # ErrorType(-1, "SSL", TRUE, FALSE)

\* C12: a timed-out wait is raised as socket.timeout and a hard I/O failure
\* as the socket's own error, both types other than the protocol-error type;
\* "socket closed" and "too large for select" are raised with the
\* protocol-error type SSLError itself, set apart only by their message and
\* by carrying no classification code.
C12_TimeoutAndIOTypesDiffer ==
    (pc = "done" /\ result.kind = "error") =>
        /\ result.msg = "timeout" => result.exc = "socket.timeout"
        /\ result.msg = "errorhandler" => result.exc = "socket.error"
        /\ result.msg \in {"closed", "too_large"} =>
               (result.exc = ErrorType(-1, "SSL", TRUE, FALSE) /\ result.code = -1)
        /\ (result.msg = "engine" /\ err = "SSL") =>
               (result.exc = "SSLError" /\ result.code = PY_SSL_ERROR_SSL)

\* a handshake failed on a wait that found the socket closed, with SSLError
C12_ClosedRaisedAsSSLError ==
    /\ pc = "done" /\ op = "handshake" /\ sockstate = "SOCKET_HAS_BEEN_CLOSED"
    /\ result.msg = "closed" /\ result.exc = "SSLError"

\* C13 (as stated): in each of the four loops a raising signal pending after
\* an engine step ends the call at once with the interrupt.
C13_InterruptAbortsLoop ==
    intr => (pc = "done" /\ result.exc = "Interrupt")

\* C14 (as stated): in all four operations a wait that reports the socket
\* closed makes the call fail with the socket-closed error.
C14_ClosedWaitFails ==
    (pc # "idle" /\ sockstate = "SOCKET_HAS_BEEN_CLOSED") =>
        (pc = "done" /\ result.kind = "error" /\ result.msg = "closed")

\* C14: a wait that reports the socket closed makes handshake and write
\* fail with the socket-closed error; read returns the empty result when
\* the wait before its first step reports it and ignores the report inside
\* its loop, going on with the next engine step; shutdown leaves its loop
\* and raises the retained want-read / want-write error.
C14_ClosedWaitByOperation ==
    (pc # "idle" /\ sockstate = "SOCKET_HAS_BEEN_CLOSED") =>
        CASE op \in {"handshake", "write"} ->
                 pc = "done" /\ result.kind = "error" /\ result.msg = "closed"
          [] op = "read" ->
                 IF steps = 0
                 THEN pc = "done" /\ result = Ok(0)
                 ELSE pc = "loop" \/ result.exc = "Interrupt"
          [] op = "shutdown" ->
                 /\ pc = "done"
                 /\ result.exc \in {"SSLWantReadError", "SSLWantWriteError"}

\* a write failed on a wait inside its loop that found the socket closed
C14_WriteFoundClosed ==
    /\ pc = "done" /\ op = "write" /\ steps >= 1
    /\ sockstate = "SOCKET_HAS_BEEN_CLOSED" /\ result.msg = "closed"

\* C15 (as stated): in all four operations a wait that reports the socket
\* too large for select makes the call fail with the too-large error, with
\* no further engine step.
C15_TooLargeWaitFails ==
    (pc # "idle" /\ sockstate = "SOCKET_TOO_LARGE_FOR_SELECT") =>
        (pc = "done" /\ result.kind = "error" /\ result.msg = "too_large")

\* C16: when the error mapper meets class syscall with nothing queued, a
\* result of 0 or a dead socket reference gives the EOF error; a result of
\* -1 with a live socket gives the socket's own error through its hook and
\* nothing of the protocol layer; the hook is reached only with a live
\* socket.
C16_SyscallWithoutQueuedError ==
    /\ (pc = "done" /\ result.msg = "errorhandler") =>
           (mapperArgs.ran /\ ~mapperArgs.sNone)
    /\ (pc = "done" /\ mapperArgs.ran /\ err = "SYSCALL" /\ ~mapperArgs.e) =>
           IF ret = 0 \/ mapperArgs.sNone
           THEN /\ result.exc = "SSLEOFError"
                /\ result.code = PY_SSL_ERROR_EOF
           ELSE /\ ret = -1
                /\ result = Raise("socket.error", -1, "errorhandler")

\* the mapper met syscall, -1, nothing queued, with the socket already gone
C16_DeadSocketIsEOF ==
    /\ pc = "done" /\ mapperArgs.ran /\ err = "SYSCALL" /\ ~mapperArgs.e
    /\ ret = -1 /\ mapperArgs.sNone /\ result.exc = "SSLEOFError"

\* C11 (as stated): every operation ends either with a success value and
\* no error set, or with a failure and an error set.
C11_ValueXorError ==
    \A i \in Threads :
        th[i].pc = "done" =>
            \/ th[i].ret = "value" /\ th[i].exc = ""
            \/ th[i].ret = "NULL" /\ th[i].exc # ""

\* C20: the verify bitmask of the Context is always that of none, optional
\* or required, and that of the value last accepted by the setter (none at
\* creation); a rejected value fails with ValueError; the getter returns
\* the value last set and never its internal-consistency error.
C20_VerifyModeOneOfThree ==
    /\ ctxVerify \in {VerifyMask(PY_SSL_CERT_NONE), VerifyMask(PY_SSL_CERT_OPTIONAL),
                      VerifyMask(PY_SSL_CERT_REQUIRED)}
    /\ ctxVerify \in {{}, {"PEER"}, {"PEER", "FAIL_IF_NO_PEER_CERT"}}
    /\ ctxVerify = VerifyMask(lastSet)
    /\ \A i \in Threads :
        /\ (th[i].pc = "done" /\ th[i].op = "get_verify_mode") =>
               (th[i].ret = "value" /\ th[i].exc = "" /\ th[i].val = lastSet)
        /\ (th[i].pc = "done" /\ th[i].op = "set_verify_mode"
            /\ th[i].ret = "NULL") =>
               th[i].exc \in {"ValueError", "TypeError"}

\* the getter returned required after the setter had accepted it
C20_RequiredReadBack ==
    \E i \in Threads :
        /\ th[i].pc = "done" /\ th[i].op = "get_verify_mode"
        /\ th[i].val = PY_SSL_CERT_REQUIRED

\* C19 (as stated): once load_cert_chain has returned the Context holds the
\* password callback and userdata it held before, so that whenever no call
\* is running the pair is the original one and no later call can find the
\* pair of an earlier call.
C19_PairRestored ==
    (\A i \in Threads : th[i].op = "load_cert_chain" => th[i].pc = "done")
        => ctxCb = 0

\* C17: a thread is inside a blocking wait or engine step only without the
\* interpreter lock, and whenever an operation has returned to its caller,
\* on whatever path, the thread holds the lock again; the lock has at most
\* the one holder.
C17_LockReleasedExactlyWhileBlocking ==
    \A i \in Threads :
        /\ th[i].pc \in BlockingPoints => gil # i
        /\ th[i].pc = "done" => gil = i

\* one thread waits in poll() inside a write while the other has run an
\* operation to its end
C17_OtherThreadRunsDuringWait ==
    \E i, j \in Threads :
        /\ th[i].pc = "poll" /\ th[i].op = "write" /\ th[i].back = "loop"
        /\ th[j].pc = "done" /\ gil = j

\* C18 (as stated): while the password callback or the server-name callback
\* runs, the interpreter lock is not held by the thread, and it is held
\* again once the trampoline has gone back to the engine.
C18_CallbackRunsUnlocked ==
    \A i \in Threads :
        /\ th[i].pc \in CallbackPoints => gil # i
        /\ (th[i].pc \in {"chain", "key"} /\ th[i].pwerr) => gil = i

\* C18: the password callback and the server-name callback are entered
\* from the engine, which runs without the interpreter lock; the trampoline
\* takes the lock, the callable runs with the lock held, and the lock is
\* given up again before the trampoline returns to the engine.
C18_CallbackRunsLocked ==
    \A i \in Threads :
        /\ th[i].pc \in CallbackPoints => gil = i
        /\ th[i].pc \in {"chain", "key", "engine"} => gil # i

\* a password callback is running under its trampoline
C18_PasswordCallbackRunning ==
    \E i \in Threads :
        th[i].pc = "pwcb" /\ th[i].callable /\ th[i].back = "key" /\ gil = i

\* C21: a setter call that got a long computes the mask to clear as
\* (current AND NOT requested) and the mask to set as (requested AND NOT
\* current); when it succeeds it has cleared and set exactly these bits, the
\* options equal the requested value, and a request equal to the current
\* options issues no clear and no set; when it fails the options are as
\* before.
C21_SetterAppliesDifference ==
    optLog.ran =>
        /\ optLog.ret = 0 =>
              /\ optLog.cleared = BitAnd(optLog.before, BitNot(optLog.req))
              /\ optLog.set = BitAnd(optLog.req, BitNot(optLog.before))
              /\ ctxOptions = BitOr(BitAnd(optLog.before, BitNot(optLog.cleared)),
                                    optLog.set)
              /\ ctxOptions = optLog.req
              /\ optLog.req = optLog.before =>
                     (optLog.cleared = 0 /\ optLog.set = 0)
        /\ optLog.ret # 0 =>
              /\ ctxOptions = optLog.before
              /\ optLog.cleared = 0 /\ optLog.set = 0
              /\ optLog.exc \in {"TypeError", "ValueError"}
              /\ optLog.exc = "ValueError" => ~haveClear

\* a setter call has both cleared and set bits and left a third bit alone
C21_ClearedAndSet ==
    /\ optLog.ran /\ optLog.ret = 0
    /\ optLog.cleared # 0 /\ optLog.set # 0
    /\ BitAnd(optLog.before, optLog.req) # 0

\* C22: load_verify_locations with cafile and capath both omitted or None
\* fails with TypeError, makes no engine call and leaves the trust store as
\* it was.
C22_BothOmittedRejected ==
    (lvlLog.ran /\ lvlLog.cafile \in {"omitted", "None"}
                /\ lvlLog.capath \in {"omitted", "None"}) =>
        /\ lvlLog.ret = "NULL" /\ lvlLog.exc = "TypeError"
        /\ ~lvlLog.engine
        /\ ~lvlLog.changed

\* the call with nothing given was made on a Context that had loaded a
\* location before
C22_RejectedAfterALoad ==
    /\ lvlLog.ran /\ lvlLog.cafile = "None" /\ lvlLog.capath = "omitted"
    /\ lvlLog.ret = "NULL" /\ store # {}

\* C23 (as stated): when the server-name callable has run, a numeric
\* return aborts the handshake with that alert, None lets it continue, and
\* any other non-None return also lets it continue.
C23_OtherReturnContinues ==
    (call.fn = "_servername_callback" /\ SniCalls(call.in)) =>
        LET res == call.in.result
        IN  /\ res.kind = "int" =>
                   call.out = SniFatal("code", res.n)
            /\ res.kind = "None" => call.out = SniOK
            /\ res.kind = "other" => call.out = SniOK

\* C23: when the server-name callable has run, an int that fits a C long
\* aborts the handshake with that value, converted to a C int, as the
\* alert; None lets the handshake continue; any other non-None return (an
\* object of another type, an int beyond a C long) aborts the handshake
\* with the internal-error alert, and a raised exception aborts it with the
\* handshake-failure alert.
C23_OtherReturnAborts ==
    (call.fn = "_servername_callback" /\ SniCalls(call.in)) =>
        LET res == call.in.result
        IN  /\ (res.kind = "int" /\ res.inLong) =>
                   call.out = SniFatal("code", ToInt(res.n))
            /\ res.kind = "None" => call.out = SniOK
            /\ (res.kind = "other" \/ (res.kind = "int" /\ ~res.inLong)) =>
                   call.out = SniFatal("SSL_AD_INTERNAL_ERROR", 0)
            /\ res.kind = "raise" =>
                   call.out = SniFatal("SSL_AD_HANDSHAKE_FAILURE", 0)

\* the callable returned an object that is neither None nor an int
C23_OtherObjectReturned ==
    /\ call.fn = "_servername_callback" /\ SniCalls(call.in)
    /\ call.in.result.kind = "other"
    /\ call.out.ret = "SSL_TLSEXT_ERR_ALERT_FATAL"

\* C24 (as stated): blocking for a negative timeout, nonblocking for zero,
\* else closed for a closed descriptor, all three without waiting; in every
\* other case a wait in the requested direction, timed-out exactly when the
\* wait ended with nothing ready and ok when the descriptor was ready.
C24_OtherwiseWaits ==
    call.fn = "check_socket_and_wait_for_timeout" =>
        LET a == call.in
            waits == call.out.waited # "none"
        IN  /\ a.t < 0 => (call.out.state = "SOCKET_IS_BLOCKING" /\ ~waits)
            /\ a.t = 0 => (call.out.state = "SOCKET_IS_NONBLOCKING" /\ ~waits)
            /\ (a.t > 0 /\ a.closed) =>
                   (call.out.state = "SOCKET_HAS_BEEN_CLOSED" /\ ~waits)
            /\ (a.t > 0 /\ ~a.closed) =>
                   /\ waits
                   /\ call.out.state = "SOCKET_HAS_TIMED_OUT" <=> a.rc = 0
                   /\ a.rc > 0 => call.out.state = "SOCKET_OPERATION_OK"

\* C24: blocking for a negative timeout, nonblocking for zero, else closed
\* for a closed descriptor, else, in a build that waits with select(),
\* too-large for a descriptor beyond the select ceiling, all four without
\* waiting; in every other case exactly one wait, for writability if
\* writing and for readability if not, whose result is timed-out exactly
\* when poll() / select() returned 0 and ok for every other return, a
\* failed wait included.
C24_WaitReadyOrder ==
    call.fn = "check_socket_and_wait_for_timeout" =>
        LET a == call.in
            waits == call.out.waited # "none"
            tooLarge == a.mux = "select_too_large"
        IN  /\ a.t < 0 => (call.out.state = "SOCKET_IS_BLOCKING" /\ ~waits)
            /\ a.t = 0 => (call.out.state = "SOCKET_IS_NONBLOCKING" /\ ~waits)
            /\ (a.t > 0 /\ a.closed) =>
                   (call.out.state = "SOCKET_HAS_BEEN_CLOSED" /\ ~waits)
            /\ (a.t > 0 /\ ~a.closed /\ tooLarge) =>
                   (call.out.state = "SOCKET_TOO_LARGE_FOR_SELECT" /\ ~waits)
            /\ (a.t > 0 /\ ~a.closed /\ ~tooLarge) =>
                   /\ call.out.waited \in
                          (IF a.writing THEN {"poll_POLLOUT", "select_writefds"}
                           ELSE {"poll_POLLIN", "select_readfds"})
                   /\ call.out.state = "SOCKET_HAS_TIMED_OUT" <=> a.rc = 0
                   /\ a.rc # 0 => call.out.state = "SOCKET_OPERATION_OK"

\* an open descriptor beyond the select ceiling, on a socket with a timeout
C24_TooLargeWithoutWaiting ==
    /\ call.fn = "check_socket_and_wait_for_timeout"
    /\ call.in.t > 0 /\ ~call.in.closed /\ call.in.mux = "select_too_large"
    /\ call.out.state = "SOCKET_TOO_LARGE_FOR_SELECT"

\* C25: the decoded name is the list of maximal runs of consecutive
\* entries with equal set identifier: its groups concatenated are the
\* attributes of the entries in their order, no group is empty, two
\* neighbouring entries are in the same group exactly when their set
\* identifiers are equal, and an empty name gives an empty list.
C25_GroupsAreMaximalRuns ==
    call.fn = "_create_tuple_for_X509_NAME" =>
        LET xname == call.in
            dn == call.out
            n == Len(xname)
            \* first flat position of group g
            Start[g \in 1 .. Len(dn) + 1] ==
                IF g = 1 THEN 1 ELSE Start[g - 1] + Len(dn[g - 1])
            GroupOf(i) == CHOOSE g \in 1 .. Len(dn) :
                              Start[g] <= i /\ i < Start[g + 1]
        IN  /\ \A g \in 1 .. Len(dn) : Len(dn[g]) > 0
            /\ Start[Len(dn) + 1] = n + 1
            /\ \A g \in 1 .. Len(dn) : \A k \in 1 .. Len(dn[g]) :
                   dn[g][k] = xname[Start[g] + k - 1].attr
            /\ \A i \in 1 .. (n - 1) :
                   (GroupOf(i) = GroupOf(i + 1)) <=> (xname[i].set = xname[i + 1].set)
            /\ n = 0 => dn = <<>>

\* a name whose set identifier comes back after a different one: three
\* groups, the first and the last with the same identifier
C25_SetIdentifierComesBack ==
    /\ call.fn = "_create_tuple_for_X509_NAME"
    /\ Len(call.in) = 3 /\ Len(call.out) = 3
    /\ call.in[1].set = 0 /\ call.in[2].set = 1 /\ call.in[3].set = 0

\* C26: a call that does not fail returns the absent marker exactly when
\* the certificate has no subjectAltName occurrence, and otherwise one
\* list: the names of every occurrence, occurrence by occurrence and in
\* their order inside each occurrence (empty if the occurrences hold no
\* names); the call fails exactly when a name it visits cannot be rendered.
C26_AllOccurrencesInOrder ==
    call.fn = "_get_peer_alt_names" =>
        LET certificate == call.in
            occ == {k \in 1 .. Len(certificate) :
                        certificate[k].nid = "subjectAltName"}
            \* the names of the occurrences up to position k, concatenated
            Upto[k \in 0 .. Len(certificate)] ==
                IF k = 0 THEN <<>>
                ELSE IF k \in occ THEN Upto[k - 1] \o certificate[k].names
                ELSE Upto[k - 1]
            all == Upto[Len(certificate)]
            bad == \E p \in 1 .. Len(all) : all[p] = "noColon"
        IN  /\ call.out.kind = "NULL" <=> bad
            /\ ~bad => /\ call.out.kind = "None" <=> occ = {}
                       /\ occ # {} => (call.out.kind = "tuple" /\ call.out.list = all)

\* two occurrences with names in each
C26_TwoOccurrences ==
    /\ call.fn = "_get_peer_alt_names"
    /\ Len(call.in) = 2
    /\ call.in[1].nid = "subjectAltName" /\ call.in[2].nid = "subjectAltName"
    /\ call.in[1].names = <<"DNS:b", "DNS:a">> /\ call.in[2].names = <<"DNS:a">>
    /\ call.out.kind = "tuple" /\ call.out.list = <<"DNS:b", "DNS:a", "DNS:a">>

\* C27: peer_certificate returns None when no peer certificate is cached;
\* with der true the DER form of the cached certificate whatever the verify
\* mode; with der false an empty dictionary when the Context does not
\* verify the peer and the decoded cached certificate when it does.
C27_PeerCertificateCases ==
    call.fn = "PySSL_peercert" =>
        LET a == call.in
            verifies == "PEER" \in a.verification
        IN  /\ a.cert = 0 => call.out.kind = "None"
            /\ (a.cert # 0 /\ a.der) =>
                   (call.out.kind = "der" /\ call.out.cert = a.cert)
            /\ (a.cert # 0 /\ ~a.der /\ ~verifies) => call.out.kind = "empty_dict"
            /\ (a.cert # 0 /\ ~a.der /\ verifies) =>
                   (call.out.kind = "decoded" /\ call.out.cert = a.cert)

\* the DER form was asked for on a Context that does not verify the peer
C27_DerWithoutValidation ==
    /\ call.fn = "PySSL_peercert"
    /\ call.in.cert # 0 /\ call.in.der /\ call.in.verification = {}
    /\ call.out.kind = "der"

C29_ReadWriteOnlyWhenEstablished ==
    (op \in {"read", "write"} /\ steps >= 1) =>
        (life = "established" /\ "SENT" \notin sslShutdown)

\* C30 (as stated): once a call has been aborted by an interrupt, no later
\* handshake, read, write or shutdown on the Channel succeeds.
C30_NoSuccessAfterInterrupt ==
    (life = "interrupted" /\ pc = "done") => result.kind # "ok"

\* C31 (as stated): after a shutdown call has completed (here: returned
\* the socket), the Channel holds no cached peer certificate.
C31_NoCertAfterShutdown ==
    (op = "shutdown" /\ pc = "done" /\ result.kind = "ok") => peer_cert = 0

\* C32 (as stated): an engine shutdown step runs with read-ahead disabled
\* if and only if an earlier shutdown step on the Channel returned zero
\* (the flag is set); the first shutdown step of a fresh Channel runs
\* without read-ahead having been disabled.
C32_ReadAheadOffIffZeroSeen ==
    [][ShutdownIter => (readAheadDisabled' <=> shutdown_seen_zero = "set")]_vars

\* the classification of the last engine step of the running call:
\* PySSL_SSLshutdown calls SSL_get_error only for a negative result
LastClass == IF op = "shutdown" /\ ret >= 0 THEN "unclassified" ELSE err

\* C33 (as stated): a call that has performed an engine step performs
\* another only after a classification in the retryable subset.
C33_RetryOnlyAfterRetryable ==
    (pc = "loop" /\ steps >= 1) =>
        LastClass \in {"WANT_READ", "WANT_WRITE", "WANT_CONNECT", "WANT_X509_LOOKUP"}

\* C33 (amended): a call performs another engine step only after a
\* want-read or want-write classification or, in shutdown, after the first
\* zero result of the call (which is not classified); after anything else,
\* want-connect and want-x509-lookup included, the call has returned.
C33_RetryOnlyAfterWantOrZero ==
    (op # "none" /\ steps >= 1) =>
        \/ pc = "done"
        \/ pc = "loop" /\ ret < 0 /\ LastClass \in {"WANT_READ", "WANT_WRITE"}
        \/ pc = "loop" /\ op = "shutdown" /\ ret = 0 /\ zeros = 1

\* shutdown goes round again after a zero result
C33_ShutdownRetriedAfterZero ==
    pc = "loop" /\ op = "shutdown" /\ steps >= 1 /\ ret = 0 /\ zeros = 1

\* the error PySSL_SetError raises for a want-read / want-write class
WantError(en) ==
    IF en = "WANT_READ"
    THEN Raise("SSLWantReadError", PY_SSL_ERROR_WANT_READ, "engine")
    ELSE Raise("SSLWantWriteError", PY_SSL_ERROR_WANT_WRITE, "engine")

\* C34: on a socket with timeout 0, a read or write engine step that
\* reports want-read or want-write is the last of the call: the call
\* returns without having waited (the wait answered "nonblocking") and
\* raises the matching want-read or want-write error; a call is still in
\* its loop after a step only if its wait answered otherwise.  (When a
\* signal handler raised after the step the call ends with the interrupt,
\* as after every step.)
C34_NonblockingStopsAndSurfaces ==
    (op \in {"read", "write"} /\ steps >= 1 /\ ~intr
        /\ err \in {"WANT_READ", "WANT_WRITE"}) =>
        /\ (pc = "done" /\ sock_timeout = 0) =>
               sockstate = "SOCKET_IS_NONBLOCKING"
        /\ sockstate = "SOCKET_IS_NONBLOCKING" =>
               (pc = "done" /\ result = WantError(err))

\* a nonblocking read stopped on want-read after its first step
C34_ReadStoppedOnWantRead ==
    /\ op = "read" /\ pc = "done" /\ steps = 1 /\ sock_timeout = 0
    /\ err = "WANT_READ" /\ ~intr
    /\ sockstate = "SOCKET_IS_NONBLOCKING"
    /\ result.exc = "SSLWantReadError"

\* C35: whenever a call (handshake, read, write, shutdown, pending) has run
\* PySSL_SetError, the engine result it passed is <= 0; a call whose last
\* engine result is positive has not run the mapper.
C35_MapperOnlyOnNonPositive ==
    (pc = "done" /\ mapperArgs.ran) =>
        /\ op \in {"handshake", "read", "write", "shutdown", "pending"}
        /\ ret <= 0
        /\ result.kind = "error"

\* a write whose engine step returned 0 went through the mapper
C35_WriteZeroMapped ==
    /\ op = "write" /\ pc = "done" /\ steps >= 1
    /\ ret = 0 /\ mapperArgs.ran /\ result.kind = "error"

\* C36: a handshake, read, write or shutdown call holds one strong
\* reference to the socket from its liveness check to its exit, so the
\* socket exists for as long as the call is in its loop, whatever the other
\* owners do; at every return the reference is given up (a socket with no
\* other owner is destroyed then), except that a shutdown which does not
\* fail hands it to the caller; between calls no reference is held.
C36_SocketBorrowedForTheCall ==
    /\ pc = "loop" => (held /\ alive)
    /\ pc \in {"idle", "done"} => ~held
    /\ alive => (held \/ extRefs)
    /\ (pc = "done" /\ op = "shutdown" /\ result.kind = "ok") =>
           (alive /\ extRefs)

\* every other owner has dropped the socket during the call: the
\* reference of the call alone keeps it alive
C36_OnlyTheCallKeepsItAlive ==
    /\ pc = "loop" /\ op = "read" /\ steps >= 1
    /\ ~extRefs /\ held /\ alive

\* C37: a handshake, read or write call raises the want-read or want-write
\* error only when the wait that ended its loop found the socket in
\* nonblocking mode (timeout 0); a call that has left its loop with any
\* other timeout has ended in success, in a timeout, closed or too-large
\* failure, in the interrupt, or in an engine error of a class other than
\* want-read and want-write.
C37_WantOnlyWhenNonblocking ==
    (op \in {"handshake", "read", "write"} /\ pc = "done") =>
        /\ (result.kind = "error"
              /\ result.code \in {PY_SSL_ERROR_WANT_READ, PY_SSL_ERROR_WANT_WRITE}) =>
               /\ sock_timeout = 0
               /\ sockstate = "SOCKET_IS_NONBLOCKING"
               /\ err \in {"WANT_READ", "WANT_WRITE"}
        /\ (steps >= 1 /\ sock_timeout # 0) =>
               \/ result.kind = "ok"
               \/ result.msg \in {"timeout", "closed", "too_large", "interrupt"}
               \/ /\ result.msg \in {"engine", "errorhandler"}
                  /\ err \notin {"WANT_READ", "WANT_WRITE"}

\* a write with a positive timeout went round its loop and then failed on
\* an engine error
C37_RetriedThenEngineError ==
    /\ op = "write" /\ pc = "done" /\ steps >= 2 /\ sock_timeout = 1
    /\ result.msg = "engine" /\ err = "SSL"

\* C38: a shutdown call returns the socket exactly when it has performed
\* an engine step and its last engine result is >= 0; a timeout or
\* too-large failure occurs only after a negative result; a last result
\* < 0 always ends in an error; two zero results end the call with the
\* socket returned, whether or not the peer's close-notify was received.
C38_SuccessIffLastResultNonNegative ==
    (op = "shutdown" /\ pc = "done") =>
        /\ result.kind = "ok" <=> (steps >= 1 /\ ret >= 0)
        /\ result.kind # "ok" => result.kind = "error"
        /\ result.msg \in {"timeout", "too_large"} => (steps >= 1 /\ ret < 0)
        /\ zeros = 2 => (ret = 0 /\ result.kind = "ok")

\* the socket was returned after two zero results, the peer's close-notify
\* never received
C38_ReturnedAfterTwoZeros ==
    /\ op = "shutdown" /\ pc = "done" /\ result.kind = "ok"
    /\ zeros = 2 /\ ret = 0 /\ "RECEIVED" \notin sslShutdown

\* a read call that was given a buffer and has parsed its arguments
ReadIntoBuffer ==
    /\ op = "read" /\ pc \in {"loop", "done"} /\ ~goneAtEntry
    /\ readArgs.tracked /\ readArgs.bp

\* C39 (as stated): when read is given a buffer whose length does not fit
\* a C int, the call fails with OverflowError before any engine call.
C39_LongBufferOverflows ==
    (ReadIntoBuffer /\ readArgs.bl > INT_MAX) =>
        (pc = "done" /\ result.exc = "OverflowError" /\ steps = 0)

\* C39 (amended): when read is given a buffer, the count handed to the
\* engine never exceeds the buffer's length: a requested length <= 0 or
\* greater than the buffer length is replaced by the buffer length, and
\* when it is so replaced and the buffer length does not fit a C int the
\* call fails with OverflowError before any engine call (a requested
\* length within the buffer is used as it is, however long the buffer);
\* the count returned on success never exceeds the count handed to the
\* engine.
C39_CountWithinBuffer ==
    ReadIntoBuffer =>
        LET l == readArgs.l
            bl == readArgs.bl
            replaced == l <= 0 \/ l > bl
            overflow == pc = "done" /\ result.exc = "OverflowError"
        IN  /\ overflow <=> (replaced /\ bl > INT_MAX)
            /\ overflow => (steps = 0 /\ reqlen = 0)
            /\ ~overflow => /\ reqlen = (IF replaced THEN bl ELSE l)
                            /\ reqlen <= bl
            /\ (pc = "done" /\ result.kind = "ok") => result.value <= reqlen

\* a read of one byte into a buffer too long for a C int has succeeded
C39_LongBufferAccepted ==
    /\ ReadIntoBuffer /\ pc = "done" /\ steps >= 1
    /\ readArgs.bl > INT_MAX /\ readArgs.l = 1
    /\ result.kind = "ok" /\ result.value = 1

====
